---- MODULE Spec2Model ----
(***************************************************************************)
(* Model of the PPTX <-> Fabric.js converter: the forward shape/style      *)
(* mapping (ShapeHandler, AdvancedShapeHandler, ColorHandler, TextHandler) *)
(* and the reverse scene builder (PPTXFabricConverter).                    *)
(*                                                                         *)
(* The converter is a synchronous pure transform: the state of the model   *)
(* is the call that was last executed (its name and argument), the locals  *)
(* the call computed and the value it returned, together with the Theme    *)
(* Table of the ColorHandler.                                              *)
(***************************************************************************)
EXTENDS Integers, Sequences, FiniteSets, TLC

VARIABLES
    theme_colors,   \* ColorHandler.theme_colors
    call,           \* [op, arg]: the operation last executed and its input
    locals,         \* intermediate values of the call that claims refer to
    result,         \* the value the call returned
    files           \* the temporary files and directories that exist

vars == <<theme_colors, call, locals, result, files>>

None == [none |-> TRUE]          \* Python's None / an absent element

(***************************************************************************)
(* Python floats.  `/` on two ints and every float operation is IEEE-754   *)
(* binary64, round-to-nearest-even.  A float is kept as its significand,   *)
(* a sequence of Precision bits (most significant first, bits[1] = 1), and *)
(* an exponent: value = SUM bits[i] * 2^(exp - i).  Zero has no bits.      *)
(* Only non-negative values occur in the model.                            *)
(***************************************************************************)
Precision == 53

FZero == [bits |-> <<>>, exp |-> 0]

\* Arithmetic on significands goes DigitBits bits at a time, so that every
\* intermediate integer stays below 2^31.
DigitBits == 5 + 5
Base == 2^DigitBits

\* the binary digits of the integer n, 0 <= n < 2^30, without leading zeros
ToBits(n) ==
    LET len == CHOOSE k \in 0..30 : n < 2^k /\ (k = 0 \/ n >= 2^(k - 1))
    IN  [j \in 1..len |-> (n \div 2^(len - j)) % 2]

\* the digit v < Base as DigitBits bits
DigitToBits(v) == [j \in 1..DigitBits |-> (v \div 2^(DigitBits - j)) % 2]

\* the bit at position i of a bit string that is followed and preceded by zeros
BitAt(bits, i) == IF i \in DOMAIN bits THEN bits[i] ELSE 0

RECURSIVE FromBits(_, _, _)
FromBits(bits, from, to) ==     \* the integer written by bits[from..to]
    IF to < from THEN 0
    ELSE IF to = from THEN BitAt(bits, to)
    ELSE LET mid == (from + to) \div 2
         IN  FromBits(bits, from, mid) * 2^(to - mid) + FromBits(bits, mid + 1, to)

StripZeros(q) ==
    IF \A i \in DOMAIN q : q[i] = 0 THEN <<>>
    ELSE LET first == CHOOSE i \in DOMAIN q :
                         q[i] = 1 /\ \A j \in 1..(i - 1) : q[j] = 0
         IN  SubSeq(q, first, Len(q))

\* Round a significand of any length (leading bit 1) to Precision bits,
\* ties to even; sticky says that non-zero bits follow the ones given.
Round(q, sticky, exp) ==
    IF Len(q) <= Precision
    THEN [bits |-> q \o [i \in 1..(Precision - Len(q)) |-> 0], exp |-> exp]
    ELSE LET head  == SubSeq(q, 1, Precision)
             guard == q[Precision + 1]
             rest  == sticky \/ \E i \in (Precision + 2)..Len(q) : q[i] = 1
             up    == guard = 1 /\ (rest \/ head[Precision] = 1)
             zeros == {i \in 1..Precision : head[i] = 0}
         IN  IF ~up THEN [bits |-> head, exp |-> exp]
             ELSE IF zeros = {}
             THEN [bits |-> [i \in 1..Precision |-> IF i = 1 THEN 1 ELSE 0],
                   exp |-> exp + 1]
             ELSE LET k == CHOOSE i \in zeros : \A j \in zeros : j <= i
                  IN  [bits |-> [i \in 1..Precision |->
                                     IF i < k THEN head[i]
                                     ELSE IF i = k THEN 1 ELSE 0],
                       exp |-> exp]

\* Long division of the bit string num (followed by zeros) by the integer d,
\* 0 < d < 2^20: the quotient bits at the positions 1..upto of num, and the
\* remainder left.
RECURSIVE LongDiv(_, _, _, _, _, _)
LongDiv(num, i, r, d, upto, q) ==
    IF i > upto THEN [q |-> q, r |-> r]
    ELSE LET t == r * Base + FromBits(num, i, i + DigitBits - 1)
         IN  LongDiv(num, i + DigitBits, t % d, d, upto,
                     q \o DigitToBits(t \div d))

Quotient(bits, exp, d) ==
    IF bits = <<>> THEN FZero
    ELSE LET upto == Len(bits) + Len(ToBits(d)) + Precision + 2
             ld   == LongDiv(bits, 1, 0, d, upto, <<>>)
             q    == StripZeros(ld.q)
         IN  Round(q, ld.r # 0, exp - (Len(ld.q) - Len(q)))

\* n / d for ints n >= 0, d > 0 (true division, correctly rounded)
IntDiv(n, d) == Quotient(ToBits(n), Len(ToBits(n)), d)

\* f / d for a float f and an int d > 0
FloatDiv(f, d) == Quotient(f.bits, f.exp, d)

\* the bits of bits * k, 0 < k < 2^20, from the least significant digit on
\* with a running carry; bits[hi] is the last bit of the digit at hand
RECURSIVE MulBits(_, _, _, _, _)
MulBits(bits, hi, carry, k, acc) ==
    IF hi < 1 THEN ToBits(carry) \o acc
    ELSE LET t == FromBits(bits, hi - DigitBits + 1, hi) * k + carry
         IN  MulBits(bits, hi - DigitBits, t \div Base, k,
                     DigitToBits(t % Base) \o acc)

\* f * k for a float f and an int k > 0
FloatMul(f, k) ==
    IF f.bits = <<>> THEN FZero
    ELSE LET p == StripZeros(MulBits(f.bits, Len(f.bits), 0, k, <<>>))
         IN  Round(p, FALSE, f.exp + (Len(p) - Len(f.bits)))

\* int(f): truncation toward zero
FloatToInt(f) == IF f.exp <= 0 THEN 0 ELSE FromBits(f.bits, 1, f.exp)

(***************************************************************************)
(* TextHandler.convert_to_fabric_text (src/text_handler.py).               *)
(*                                                                         *)
(* text_props is what get_text_properties returns: a list of paragraphs,   *)
(* each with its alignment and its runs; a run has a text (a sequence of   *)
(* characters) and a font.  Paragraph spacing is the same in every input   *)
(* paragraph and is left out of the records.  Keys of the style map are    *)
(* str(offset) in the code and the offset itself here.                     *)
(***************************************************************************)
MaxParas == 2       \* paragraphs of a textbox
MaxRuns  == 3       \* runs of a textbox, all paragraphs together

Aligns == {"left", "center"}

FontItalic == [name |-> "Arial", size |-> 12, bold |-> FALSE, italic |-> TRUE,
               underline |-> FALSE, color |-> "#000000"]
FontBold   == [name |-> "Calibri", size |-> 18, bold |-> TRUE, italic |-> FALSE,
               underline |-> TRUE, color |-> "#ff0000"]
FontLarge  == [name |-> "Arial", size |-> 18, bold |-> FALSE, italic |-> FALSE,
               underline |-> FALSE, color |-> "#ff0000"]

\* the runs of the model: two with text and one whose text is empty
Runs == { [text |-> <<"a">>,      font |-> FontItalic],
          [text |-> <<"b", "c">>, font |-> FontBold],
          [text |-> <<>>,         font |-> FontLarge] }

RunSeqs(n) == UNION { [1..k -> Runs] : k \in 0..n }

RECURSIVE ParagraphSeqs(_, _)
ParagraphSeqs(p, n) ==      \* at most p paragraphs holding at most n runs
    {<<>>} \cup
    (IF p = 0 THEN {}
     ELSE UNION { UNION { { <<[align |-> a, runs |-> rs]>> \o rest :
                              rest \in ParagraphSeqs(p - 1, n - Len(rs)) } :
                          a \in Aligns } :
                  rs \in RunSeqs(n) })

TextProps == { [paragraphs |-> ps] : ps \in ParagraphSeqs(MaxParas, MaxRuns) }

NewLine == "\n"

\* the accumulators of the walk before the first paragraph; origin is a ghost
\* that records, for each character emitted, the paragraph, run and position
\* it came from (run 0 for a newline added between paragraphs)
WalkStart == [text |-> <<>>, styles |-> <<>>, current_index |-> 0,
              font_sizes |-> <<>>, font_families |-> <<>>, colors |-> <<>>,
              alignments |-> <<>>, origin |-> <<>>]

RunStyle(run, paragraph) ==
    [fontFamily |-> run.font.name,
     fontSize   |-> run.font.size,
     fontWeight |-> IF run.font.bold THEN "bold" ELSE "normal",
     fontStyle  |-> IF run.font.italic THEN "italic" ELSE "normal",
     underline  |-> run.font.underline,
     fill       |-> run.font.color,
     textAlign  |-> paragraph.align]

\* the body of `for run in paragraph['runs']`
AddRun(acc, paragraph, p, r) ==
    LET run  == paragraph.runs[r]
        n    == Len(run.text)
        keys == acc.current_index .. (acc.current_index + n - 1)
    IN  IF run.text = <<>> THEN acc
        ELSE [acc EXCEPT
                !.text          = @ \o run.text,
                !.font_sizes    = Append(@, run.font.size),
                !.font_families = Append(@, run.font.name),
                !.colors        = Append(@, run.font.color),
                !.styles        = [k \in (DOMAIN @) \cup keys |->
                                      IF k \in keys THEN RunStyle(run, paragraph)
                                      ELSE @[k]],
                !.current_index = @ + n,
                !.origin        = @ \o [k \in 1..n |-> <<p, r, k>>]]

RECURSIVE AddRuns(_, _, _, _)
AddRuns(acc, paragraph, p, r) ==
    IF r > Len(paragraph.runs) THEN acc
    ELSE AddRuns(AddRun(acc, paragraph, p, r), paragraph, p, r + 1)

\* a slip that AddNewline could hold: the newline is emitted and not counted
AddNewlineNoIndex(acc, paragraphs, p) ==
    IF paragraphs[p] # paragraphs[Len(paragraphs)]
    THEN [acc EXCEPT !.text = Append(@, NewLine),
                     !.origin = Append(@, <<p, 0, 0>>)]
    ELSE acc

\* `if paragraph != text_props['paragraphs'][-1]`: the paragraphs are dicts,
\* compared by value
AddNewline(acc, paragraphs, p) ==
    IF paragraphs[p] # paragraphs[Len(paragraphs)]
    THEN [acc EXCEPT !.text = Append(@, NewLine),
                     !.current_index = @ + 1,
                     !.origin = Append(@, <<p, 0, 0>>)]
    ELSE acc

\* the body of `for paragraph in text_props['paragraphs']`
AddParagraph(acc, paragraphs, p) ==
    AddNewline(
        AddRuns([acc EXCEPT !.alignments = Append(@, paragraphs[p].align)],
                paragraphs[p], p, 1),
        paragraphs, p)

RECURSIVE WalkParagraphs(_, _, _)
WalkParagraphs(acc, paragraphs, p) ==
    IF p > Len(paragraphs) THEN acc
    ELSE WalkParagraphs(AddParagraph(acc, paragraphs, p), paragraphs, p + 1)

Count(xs, v) == Cardinality({i \in DOMAIN xs : xs[i] = v})
Values(xs) == {xs[i] : i \in DOMAIN xs}

\* a slip that MostCommon could hold: min in the place of max
LeastCommon(xs) ==
    {v \in Values(xs) : \A w \in Values(xs) : Count(xs, v) <= Count(xs, w)}

\* max(set(xs), key=xs.count): max returns the first element with the largest
\* count in the iteration order of the set, which is the hash order of the
\* values and not the order of xs; any value with the largest count can be
\* the one returned
MostCommon(xs) ==
    {v \in Values(xs) : \A w \in Values(xs) : Count(xs, w) <= Count(xs, v)}

\* `if xs: fabric_text[k] = max(...)`, over the default set at the start
MostCommonOr(xs, default) == IF xs = <<>> THEN {default} ELSE MostCommon(xs)

\* the objects convert_to_fabric_text can return for text_props
convert_to_fabric_text(text_props) ==
    LET w == WalkParagraphs(WalkStart, text_props.paragraphs, 1)
    IN  { [type |-> "textbox", text |-> w.text, styles |-> w.styles,
           fontSize |-> fs, fontFamily |-> ff, textAlign |-> al, fill |-> c,
           originX |-> "left", originY |-> "top"] :
          fs \in MostCommonOr(w.font_sizes, 12),
          ff \in MostCommonOr(w.font_families, "Arial"),
          al \in MostCommonOr(w.alignments, "left"),
          c  \in MostCommonOr(w.colors, "#000000") }

(***************************************************************************)
(* Markup.  An element is a record: attrs holds the attributes present and *)
(* every other field holds the list of the descendants with that tag, in   *)
(* document order, so that find() is the first of the list or None.        *)
(***************************************************************************)
Opt(S) == {<<>>} \cup {<<e>> : e \in S}

\* elem.find(tag)
Find(children) == IF children = <<>> THEN None ELSE children[1]

\* int(elem.get(name, default))
Attr(elem, name, default) ==
    IF name \in DOMAIN elem.attrs THEN elem.attrs[name] ELSE default

\* dict.update / {**a, **b}
Merge(a, b) ==
    [k \in (DOMAIN a) \cup (DOMAIN b) |-> IF k \in DOMAIN b THEN b[k] ELSE a[k]]

EmptyDict == <<>>

(***************************************************************************)
(* ColorHandler (src/color_handler.py).                                    *)
(***************************************************************************)
ThemeDefaults ==
    [BACKGROUND_1 |-> "#FFFFFF", BACKGROUND_2 |-> "#F2F2F2",
     TEXT_1 |-> "#000000", TEXT_2 |-> "#666666",
     ACCENT_1 |-> "#4472C4", ACCENT_2 |-> "#ED7D31", ACCENT_3 |-> "#A5A5A5",
     ACCENT_4 |-> "#FFC000", ACCENT_5 |-> "#5B9BD5", ACCENT_6 |-> "#70AD47"]

\* color_mappings: the elements of a:clrScheme and the roles they fill
color_mappings ==
    [dk1 |-> "TEXT_1", lt1 |-> "BACKGROUND_1", dk2 |-> "TEXT_2",
     lt2 |-> "BACKGROUND_2", accent1 |-> "ACCENT_1", accent2 |-> "ACCENT_2",
     accent3 |-> "ACCENT_3", accent4 |-> "ACCENT_4", accent5 |-> "ACCENT_5",
     accent6 |-> "ACCENT_6"]

\* str(elem.get(name)) inside an f-string: 'None' for a missing attribute
StrAttr(elem, name) ==
    IF name \in DOMAIN elem.attrs THEN elem.attrs[name] ELSE "None"

\* _extract_color_from_element(element) while the table is being built,
\* the string returned as [color |-> string]: a:srgbClr first, then a:sysClr
\* by lastClr and, without one, by val.  The a:schemeClr branch reads
\* self.theme_colors, which __init__ has not assigned yet: AttributeError,
\* caught, None.
extract_color_from_element(element) ==
    IF element.srgbClr # <<>>
    THEN [color |-> "#" \o StrAttr(element.srgbClr[1], "val")]
    ELSE IF element.sysClr # <<>>
    THEN [color |-> "#" \o (IF "lastClr" \in DOMAIN element.sysClr[1].attrs
                            THEN element.sysClr[1].attrs.lastClr
                            ELSE StrAttr(element.sysClr[1], "val"))]
    ELSE None

\* the a:clrScheme _extract_theme_colors reaches: the first slide's
\* part.slide_layout.theme.element, each step taken only when the
\* attribute is there; None when a step is missing
reached_clrScheme(presentation) ==
    IF presentation.slides = <<>> THEN None
    ELSE LET slide == presentation.slides[1]
         IN  IF slide.slide_layout = <<>> THEN None
             ELSE IF slide.slide_layout[1].theme = <<>> THEN None
             ELSE Find(slide.slide_layout[1].theme[1].clrScheme)

\* _extract_theme_colors(): the defaults, and over them the colors of the
\* scheme's elements that give one
extract_theme_colors(presentation) ==
    LET clr_scheme == reached_clrScheme(presentation)
    IN  IF clr_scheme = None THEN ThemeDefaults
        ELSE [theme_name \in DOMAIN ThemeDefaults |->
                LET elem_name == CHOOSE e \in DOMAIN color_mappings :
                                     color_mappings[e] = theme_name
                IN  IF /\ elem_name \in DOMAIN clr_scheme
                       /\ extract_color_from_element(clr_scheme[elem_name]) # None
                    THEN extract_color_from_element(clr_scheme[elem_name]).color
                    ELSE ThemeDefaults[theme_name]]

HexDigits == <<"0", "1", "2", "3", "4", "5", "6", "7",
               "8", "9", "a", "b", "c", "d", "e", "f">>

\* f'{n:02x}'
Hex2(n) == HexDigits[(n \div 16) + 1] \o HexDigits[(n % 16) + 1]

\* f'#{rgb[0]:02x}{rgb[1]:02x}{rgb[2]:02x}'
HexColor(rgb) == "#" \o Hex2(rgb[1]) \o Hex2(rgb[2]) \o Hex2(rgb[3])

\* A color object as the handler sees it:
\*   kind "rgb":    .rgb is the RGB triple
\*   kind "scheme": .rgb raises AttributeError (hasattr is False) and
\*                  .theme_color is the role, whose str() is theme_color
\*   kind "none":   .rgb and .theme_color both raise AttributeError
\* A fill is [type, fore_color]; obj.fill = None is an object without a
\* fill attribute.
NoColor == [kind |-> "none"]

\* a slip that get_shape_color could hold: the gradient placeholder for a
\* shape without a fill
get_shape_color_placeholder(tc, obj) ==
    IF obj.fill = None THEN "transparent"
    ELSE IF obj.fill.type = "SOLID" /\ obj.fill.fore_color.kind = "rgb"
    THEN HexColor(obj.fill.fore_color.rgb)
    ELSE "gradient"

\* ColorHandler.get_shape_color(shape) with theme_colors = tc.  For a theme
\* color the debug print indexes theme_colors before the membership test, so
\* a role missing from the table raises KeyError, which the handler catches:
\* 'transparent' either way.
get_shape_color(tc, obj) ==
    IF obj.fill = None THEN "transparent"
    ELSE IF obj.fill.type = "BACKGROUND" THEN "transparent"
    ELSE IF obj.fill.type = "SOLID" /\ obj.fill.fore_color.kind = "rgb"
    THEN HexColor(obj.fill.fore_color.rgb)
    ELSE IF obj.fill.type = "SOLID" /\ obj.fill.fore_color.kind = "scheme"
    THEN IF obj.fill.fore_color.theme_color \in DOMAIN tc
         THEN tc[obj.fill.fore_color.theme_color]
         ELSE "transparent"
    ELSE IF obj.fill.type = "GRADIENT" THEN "gradient"
    ELSE "transparent"

\* ColorHandler.get_text_color(run) with theme_colors = tc
get_text_color(tc, run) ==
    IF run.font.color.kind = "rgb" THEN HexColor(run.font.color.rgb)
    ELSE IF /\ run.font.color.kind = "scheme"
            /\ run.font.color.theme_color \in DOMAIN tc
    THEN tc[run.font.color.theme_color]
    ELSE "#000000"

(***************************************************************************)
(* AdvancedShapeHandler (src/advanced_shape_handler.py).                   *)
(***************************************************************************)
\* the names bound in the module: its imports and its class
AdvancedGlobals == {"ET", "ZipFile", "io", "base64", "math", "AdvancedShapeHandler"}

\* _get_effect_color(effect_elem)
get_effect_color(effect_elem) ==
    IF effect_elem.srgbClr = <<>> THEN "#000000"
    ELSE "#" \o effect_elem.srgbClr[1]

\* _extract_effects(effects): shadow, then glow, then soft-edge
extract_effects(effects) ==
    LET shadow == Find(effects.outerShdw)
        glow   == Find(effects.glow)
        soft   == Find(effects.softEdge)
    IN  (IF shadow = None THEN <<>>
         ELSE <<[type    |-> "shadow",
                 color   |-> get_effect_color(shadow),
                 opacity |-> IntDiv(Attr(shadow, "alpha", 100000), 100000),
                 blur    |-> IntDiv(Attr(shadow, "blurRad", 0), 12700),
                 offset  |-> [x |-> IntDiv(Attr(shadow, "dx", 0), 12700),
                              y |-> IntDiv(Attr(shadow, "dy", 0), 12700)]]>>)
        \o
        (IF glow = None THEN <<>>
         ELSE <<[type    |-> "glow",
                 color   |-> get_effect_color(glow),
                 opacity |-> IntDiv(Attr(glow, "alpha", 100000), 100000),
                 radius  |-> IntDiv(Attr(glow, "rad", 0), 12700)]>>)
        \o
        (IF soft = None THEN <<>>
         ELSE <<[type   |-> "soft-edge",
                 radius |-> IntDiv(Attr(soft, "rad", 0), 12700)]>>)

\* the stops of _extract_gradient: a stop without an sRGB color is left out
RECURSIVE extract_stops(_)
extract_stops(gs_list) ==
    IF gs_list = <<>> THEN <<>>
    ELSE LET gs == Head(gs_list)
         IN  (IF gs.srgbClr = <<>> THEN <<>>
              ELSE <<[offset |-> IntDiv(Attr(gs, "pos", 0), 100000),
                      color  |-> "#" \o gs.srgbClr[1]]>>)
             \o extract_stops(Tail(gs_list))

\* _extract_gradient(grad_fill)
extract_gradient(grad_fill) ==
    [type  |-> IF grad_fill.lin = <<>> /\ grad_fill.path # <<>>
               THEN "radial" ELSE "linear",
     angle |-> IF grad_fill.lin # <<>>
               THEN IntDiv(Attr(grad_fill.lin[1], "ang", 0), 60000)
               ELSE FZero,
     stops |-> extract_stops(grad_fill.gs)]

\* one command of a custom-geometry path, as _extract_custom_geometry
\* writes it: the coordinates are int(...) / 100000, a cubic curve is
\* written only with exactly 3 points, other elements are passed over
custom_command(cmd) ==
    CASE cmd.tag \in {"moveTo", "lnTo"} ->
           <<[cmd |-> IF cmd.tag = "moveTo" THEN "M" ELSE "L",
              x   |-> IntDiv(Attr(cmd.pts[1], "x", 0), 100000),
              y   |-> IntDiv(Attr(cmd.pts[1], "y", 0), 100000)]>>
      [] cmd.tag = "cubicBezTo" ->
           IF Len(cmd.pts) = 3
           THEN <<[cmd |-> "C",
                   pts |-> [i \in 1..3 |->
                              [x |-> IntDiv(Attr(cmd.pts[i], "x", 0), 100000),
                               y |-> IntDiv(Attr(cmd.pts[i], "y", 0), 100000)]]]>>
           ELSE <<>>
      [] cmd.tag = "arcTo" ->
           <<[cmd   |-> "A",
              wR    |-> IntDiv(Attr(cmd, "wR", 0), 100000),
              hR    |-> IntDiv(Attr(cmd, "hR", 0), 100000),
              stAng |-> IntDiv(Attr(cmd, "stAng", 0), 60000),
              large |-> Attr(cmd, "swAng", 0) > 180 * 60000,
              sweep |-> Attr(cmd, "swAng", 0) > 0]>>
      [] cmd.tag = "close" -> <<[cmd |-> "Z"]>>
      [] OTHER -> <<>>

\* `for cmd in path`: the commands of one a:path, joined in order
RECURSIVE custom_path(_)
custom_path(cmds) ==
    IF cmds = <<>> THEN <<>>
    ELSE custom_command(Head(cmds)) \o custom_path(Tail(cmds))

\* geometry['paths']: the paths that have a command, in document order
RECURSIVE custom_paths(_)
custom_paths(paths) ==
    IF paths = <<>> THEN <<>>
    ELSE (IF custom_path(Head(paths).commands) = <<>> THEN <<>>
          ELSE <<custom_path(Head(paths).commands)>>)
         \o custom_paths(Tail(paths))

\* _extract_custom_geometry(custom_geom).  A moveTo or lnTo without an a:pt
\* child makes pt None: AttributeError, caught, and the geometry is None.
extract_custom_geometry(custom_geom) ==
    LET paths == IF custom_geom.pathLst = <<>> THEN <<>>
                 ELSE custom_geom.pathLst[1].paths
    IN  IF \E i \in DOMAIN paths : \E j \in DOMAIN paths[i].commands :
              /\ paths[i].commands[j].tag \in {"moveTo", "lnTo"}
              /\ paths[i].commands[j].pts = <<>>
        THEN None
        ELSE [paths |-> custom_paths(paths),
              rect  |-> IF custom_geom.rect = <<>> THEN None
                        ELSE [l |-> IntDiv(Attr(custom_geom.rect[1], "l", 0), 100000),
                              t |-> IntDiv(Attr(custom_geom.rect[1], "t", 0), 100000),
                              r |-> IntDiv(Attr(custom_geom.rect[1], "r", 0), 100000),
                              b |-> IntDiv(Attr(custom_geom.rect[1], "b", 0), 100000)]]

\* extract_shape_properties(shape): sp_pr is the first descendant of the
\* shape's element named spPr in the DrawingML namespace (a:spPr)
extract_shape_properties(shape) ==
    LET sp_pr == Find(shape.element.a_spPr)
    IN  IF sp_pr = None THEN None
        ELSE [gradient |-> IF sp_pr.gradFill = <<>> THEN None
                           ELSE extract_gradient(sp_pr.gradFill[1]),
              custom_geometry |-> IF sp_pr.custGeom = <<>> THEN None
                                  ELSE extract_custom_geometry(sp_pr.custGeom[1]),
              effects  |-> IF sp_pr.effectLst = <<>> THEN <<>>
                           ELSE extract_effects(sp_pr.effectLst[1])]

\* a slip the glow branch could hold: the radius taken as the blur, not
\* doubled
effect_shadow_single_radius(effect) ==
    IF effect.type = "shadow"
    THEN [color |-> effect.color, blur |-> effect.blur,
          offsetX |-> effect.offset.x, offsetY |-> effect.offset.y,
          opacity |-> effect.opacity]
    ELSE IF effect.type = "glow"
    THEN [color |-> effect.color, blur |-> effect.radius,
          offsetX |-> FZero, offsetY |-> FZero, opacity |-> effect.opacity]
    ELSE [color |-> "#000000", blur |-> effect.radius,
          offsetX |-> FZero, offsetY |-> FZero, opacity |-> IntDiv(1, 10)]

\* the 'shadow' descriptor convert_to_fabric writes for one effect
effect_shadow(effect) ==
    IF effect.type = "shadow"
    THEN [color |-> effect.color, blur |-> effect.blur,
          offsetX |-> effect.offset.x, offsetY |-> effect.offset.y,
          opacity |-> effect.opacity]
    ELSE IF effect.type = "glow"
    THEN [color |-> effect.color, blur |-> FloatMul(effect.radius, 2),
          offsetX |-> FZero, offsetY |-> FZero, opacity |-> effect.opacity]
    ELSE [color |-> "#000000", blur |-> effect.radius,
          offsetX |-> FZero, offsetY |-> FZero, opacity |-> IntDiv(1, 10)]

\* `for effect in effects: fabric_props['shadow'] = ...`: every effect of
\* the list overwrites the key, so the last one stays
RECURSIVE convert_effects(_, _)
convert_effects(fabric_props, effects) ==
    IF effects = <<>> THEN fabric_props
    ELSE convert_effects(
             Merge(fabric_props, [shadow |-> effect_shadow(Head(effects))]),
             Tail(effects))

\* {str(stop['offset']): stop['color'] for stop in stops}: a later stop
\* with the same offset replaces the earlier one
colorStops(stops) ==
    [o \in {stops[i].offset : i \in DOMAIN stops} |->
        stops[CHOOSE i \in DOMAIN stops :
                 /\ stops[i].offset = o
                 /\ \A j \in DOMAIN stops : stops[j].offset = o => j <= i].color]

RadialCoords ==
    [x1 |-> IntDiv(1, 2), y1 |-> IntDiv(1, 2), r1 |-> FZero,
     x2 |-> IntDiv(1, 2), y2 |-> IntDiv(1, 2), r2 |-> IntDiv(1, 2)]

\* the coordinates of a linear gradient, as the terms the code writes:
\* 0.5 -/+ 0.5 * cos(angle * PI / 180) and 0.5 -/+ 0.5 * sin(angle * PI / 180)
LinearCoords(angle) ==
    [x1 |-> [term |-> "0.5 - 0.5 * cos", angle |-> angle],
     y1 |-> [term |-> "0.5 - 0.5 * sin", angle |-> angle],
     x2 |-> [term |-> "0.5 + 0.5 * cos", angle |-> angle],
     y2 |-> [term |-> "0.5 + 0.5 * sin", angle |-> angle]]

\* the fill convert_to_fabric builds for a gradient
gradient_fill(grad) ==
    [type       |-> grad.type,
     coords     |-> IF grad.type = "linear" THEN LinearCoords(grad.angle)
                    ELSE RadialCoords,
     colorStops |-> colorStops(grad.stops)]

\* the 'path' and 'clipPath' convert_to_fabric writes for a custom
\* geometry: the first path, and the rectangle with its width r - l and
\* height b - t kept as the differences the code computes
geometry_props(geom) ==
    IF geom = None THEN EmptyDict
    ELSE Merge(IF geom.paths # <<>> THEN [path |-> geom.paths[1]] ELSE EmptyDict,
               IF geom.rect # None
               THEN [clipPath |->
                       [type   |-> "rect",
                        left   |-> geom.rect.l,
                        top    |-> geom.rect.t,
                        width  |-> [term |-> "r - l", r |-> geom.rect.r,
                                                      l |-> geom.rect.l],
                        height |-> [term |-> "b - t", b |-> geom.rect.b,
                                                      t |-> geom.rect.t]]]
               ELSE EmptyDict)

\* convert_to_fabric(shape_props).  For a linear gradient the coordinates
\* are computed with the name Math, which the module does not bind (it
\* imports math): NameError, caught by the handler, which returns {}.
\* a slip convert_to_fabric could hold: the facet that raises is passed
\* over and the other facets are still converted
convert_to_fabric_facet_by_facet(shape_props) ==
    IF shape_props = None THEN EmptyDict
    ELSE convert_effects(
             Merge(IF /\ shape_props.gradient # None
                      /\ ~(/\ shape_props.gradient.type = "linear"
                           /\ "Math" \notin AdvancedGlobals)
                   THEN [fill |-> gradient_fill(shape_props.gradient)]
                   ELSE EmptyDict,
                   geometry_props(shape_props.custom_geometry)),
             shape_props.effects)

convert_to_fabric(shape_props) ==
    IF shape_props = None THEN EmptyDict
    ELSE IF /\ shape_props.gradient # None
            /\ shape_props.gradient.type = "linear"
            /\ "Math" \notin AdvancedGlobals
    THEN EmptyDict
    ELSE convert_effects(
             Merge(IF shape_props.gradient # None
                   THEN [fill |-> gradient_fill(shape_props.gradient)]
                   ELSE EmptyDict,
                   geometry_props(shape_props.custom_geometry)),
             shape_props.effects)

(***************************************************************************)
(* ShapeHandler (src/shape_handler.py).                                    *)
(*                                                                         *)
(* A shape is what python-pptx exposes of it: shape_type, the geometry in  *)
(* native units, rotation, fill (of the shape's own p:spPr), line, the     *)
(* text frame, the image, and the XML element.  Numbers that the code      *)
(* leaves as the int 1 next to floats are written as the float 1.0.        *)
(***************************************************************************)
FOne == IntDiv(1, 1)

\* _get_base_properties(shape)
get_base_properties(shape) ==
    [left     |-> IntDiv(shape.left, 12700),
     top      |-> IntDiv(shape.top, 12700),
     width    |-> IntDiv(shape.width, 12700),
     height   |-> IntDiv(shape.height, 12700),
     rotation |-> shape.rotation]

\* line.color: python-pptx makes the line's fill solid when it is read, and
\* a fill made solid this way has no color yet
LineAfterColor(line) ==
    [fill |-> IF line.fill.type = "SOLID" THEN line.fill
              ELSE [type |-> "SOLID", fore_color |-> NoColor]]

\* _get_line_properties(shape)
get_line_properties(tc, shape) ==
    IF shape.line = None THEN EmptyDict
    ELSE [stroke      |-> get_shape_color(tc, LineAfterColor(shape.line)),
          strokeWidth |-> IntDiv(shape.line.width, 12700)]

\* the defaults _process_autoshape and _process_line put on line_props
\* a slip the defaults could hold: only a missing key is given its default,
\* a width of 0 is kept
line_defaults_missing_only(line_props) ==
    Merge([stroke |-> "#000000", strokeWidth |-> FOne], line_props)

\* `if not line_props.get('stroke')` and `if not line_props.get('strokeWidth')`
\* of _process_autoshape and _process_line: a key that is missing or whose
\* value is falsy is given its default
line_defaults(line_props) ==
    Merge(Merge([stroke |-> "#000000", strokeWidth |-> FOne],
                line_props),
          IF "strokeWidth" \in DOMAIN line_props /\ line_props.strokeWidth = FZero
          THEN [strokeWidth |-> FOne] ELSE EmptyDict)

\* a slip the triangle's angle could hold: the half turn added without
\* the reduction modulo 360
triangle_angle_unreduced(rotation) == rotation + 180

\* (shape_data["rotation"] + 180) % 360
triangle_angle(rotation) == (rotation + 180) % 360

\* _process_autoshape(shape, base_props)
process_autoshape(tc, shape, base_props) ==
    LET shape_type == IF shape.auto_shape_type = "ISOSCELES_TRIANGLE"
                      THEN "triangle" ELSE "rect"
        shape_data == Merge(Merge(Merge(base_props, [type |-> shape_type]),
                                  [fill |-> get_shape_color(tc, shape)]),
                            line_defaults(get_line_properties(tc, shape)))
    IN  IF shape_type = "triangle"
        THEN Merge(shape_data, [angle |-> triangle_angle(shape_data.rotation)])
        ELSE shape_data

\* one child of the a:path element, as _extract_path_commands writes it:
\* the coordinates are float(...) / 12700, a cubic curve is written only
\* with exactly 3 points, other elements are passed over
path_command(child) ==
    CASE child.tag \in {"moveTo", "lnTo"} ->
           <<[cmd |-> IF child.tag = "moveTo" THEN "M" ELSE "L",
              x   |-> IntDiv(child.pts[1].attrs.x, 12700),
              y   |-> IntDiv(child.pts[1].attrs.y, 12700)]>>
      [] child.tag = "cubicBezTo" ->
           IF Len(child.pts) = 3
           THEN <<[cmd |-> "C",
                   pts |-> [i \in 1..3 |->
                              [x |-> IntDiv(child.pts[i].attrs.x, 12700),
                               y |-> IntDiv(child.pts[i].attrs.y, 12700)]]]>>
           ELSE <<>>
      [] child.tag = "close" -> <<[cmd |-> "Z"]>>
      [] OTHER -> <<>>

RECURSIVE path_commands(_)
path_commands(children) ==
    IF children = <<>> THEN <<>>
    ELSE path_command(Head(children)) \o path_commands(Tail(children))

\* _extract_path_commands(path_elem): the string of the commands joined in
\* order, [joined |-> <<>>] for the empty string.  A moveTo or lnTo without
\* an a:pt child, or a point without x or y, raises; the handler returns
\* None.
extract_path_commands(path_elem) ==
    IF \E j \in DOMAIN path_elem.commands :
          LET child == path_elem.commands[j]
          IN  \/ /\ child.tag \in {"moveTo", "lnTo"}
                 /\ \/ child.pts = <<>>
                    \/ {"x", "y"} \ DOMAIN child.pts[1].attrs # {}
              \/ /\ child.tag = "cubicBezTo"
                 /\ Len(child.pts) = 3
                 /\ \E i \in 1..3 : {"x", "y"} \ DOMAIN child.pts[i].attrs # {}
    THEN None
    ELSE [joined |-> path_commands(path_elem.commands)]

\* _get_path_data(shape): path_elem is the first descendant of the shape's
\* element named a:path
get_path_data(shape) ==
    IF shape.element.a_path = <<>> THEN None
    ELSE extract_path_commands(shape.element.a_path[1])

\* _process_freeform(shape, base_props): None when the path data is None
\* or the empty string
process_freeform(tc, shape, base_props) ==
    LET path_data == get_path_data(shape)
    IN  IF path_data = None \/ path_data.joined = <<>> THEN None
        ELSE Merge(Merge(Merge(base_props,
                               [type |-> "path", path |-> path_data.joined]),
                         [fill |-> get_shape_color(tc, shape)]),
                   get_line_properties(tc, shape))

\* _process_line(shape, base_props)
process_line(tc, shape, base_props) ==
    Merge(Merge(base_props,
                [type |-> "path",
                 path |-> <<[cmd |-> "M", x |-> IntDiv(shape.left, 12700),
                                          y |-> IntDiv(shape.top, 12700)],
                            [cmd |-> "L", x |-> IntDiv(shape.left + shape.width, 12700),
                                          y |-> IntDiv(shape.top + shape.height, 12700)]>>,
                 fill |-> "transparent"]),
          line_defaults(get_line_properties(tc, shape)))

\* _process_picture(shape, base_props)
process_picture(shape, base_props) ==
    IF shape.image = None THEN None
    ELSE Merge(base_props,
               [type    |-> "image",
                src     |-> shape.image,
                opacity |-> IF \/ shape.element.alphaModFix = <<>>
                               \/ "amt" \notin DOMAIN shape.element.alphaModFix[1].attrs
                            THEN FOne
                            ELSE IntDiv(shape.element.alphaModFix[1].attrs.amt,
                                        100000),
                crossOrigin |-> "anonymous"])

\* _process_textbox(shape, base_props): the objects it can return
process_textbox(tc, shape, base_props) ==
    { Merge(Merge(base_props, fabric_text),
            [backgroundColor |-> get_shape_color(tc, shape)]) :
      fabric_text \in convert_to_fabric_text(shape.text_frame) }

\* what process_shape adds to base_props before it dispatches on the kind
enriched_base_properties(shape) ==
    LET advanced_props == extract_shape_properties(shape)
    IN  IF advanced_props = None THEN get_base_properties(shape)
        ELSE Merge(get_base_properties(shape), convert_to_fabric(advanced_props))

\* the attributes process_shape and _get_base_properties read of every
\* shape; shape.raises are the attributes of the shape whose read (or whose
\* use in the arithmetic, for a geometry that is None) raises
AlwaysRead == {"shape_type", "left", "top", "width", "height"}

RECURSIVE process_shape(_, _)
RECURSIVE process_children(_, _)

\* `for shape in group_shape.shapes`: the lists shapes_data can end as, the
\* children that gave no object left out
process_children(tc, shapes) ==
    IF shapes = <<>> THEN {<<>>}
    ELSE { (IF shape_data = None THEN <<>> ELSE <<shape_data>>) \o rest :
             shape_data \in process_shape(tc, Head(shapes)),
             rest \in process_children(tc, Tail(shapes)) }

\* _process_group(group_shape, base_props): None when no child gave an object
process_group(tc, group_shape, base_props) ==
    { IF shapes_data = <<>> THEN None
      ELSE Merge(base_props, [type |-> "group", objects |-> shapes_data]) :
        shapes_data \in process_children(tc, group_shape.shapes) }

\* process_shape(shape): the values it can return (None for a kind it does
\* not support, and when anything raised)
process_shape(tc, shape) ==
    IF shape.raises \cap AlwaysRead # {} THEN {None}
    ELSE
    LET base_props == enriched_base_properties(shape)
    IN  CASE shape.shape_type = "GROUP"      -> process_group(tc, shape, base_props)
          [] shape.shape_type = "PICTURE"    -> {process_picture(shape, base_props)}
          [] shape.shape_type = "TEXT_BOX"   -> process_textbox(tc, shape, base_props)
          [] shape.shape_type = "AUTO_SHAPE" -> {process_autoshape(tc, shape, base_props)}
          [] shape.shape_type = "FREEFORM"   -> {process_freeform(tc, shape, base_props)}
          [] shape.shape_type = "LINE"       -> {process_line(tc, shape, base_props)}
          [] OTHER                           -> {None}

(***************************************************************************)
(* PPTXFabricConverter, the reverse direction                              *)
(* (src/pptx_fabric_converter.py).                                         *)
(***************************************************************************)
\* the names bound in the module: its imports and its class
ConverterGlobals ==
    {"Presentation", "Pt", "Inches", "MSO_SHAPE_TYPE", "RGBColor", "json",
     "base64", "re", "io", "zipfile", "tempfile", "shutil", "os",
     "ColorHandler", "TextHandler", "ShapeHandler", "PPTXFabricConverter"}

\* a slip Inches could hold: the inches truncated before they are scaled
InchesOfWhole(v) == FloatToInt(v) * 914400

\* pptx.util.Inches(v) and Pt(v): int(v * 914400) and int(v * 12700)
Inches(v) == FloatToInt(FloatMul(v, 914400))

Pt(v) == FloatToInt(FloatMul(v, 12700))

\* the colors that occur in the documents and objects of the model
KnownRGBs ==
    {<<0, 0, 0>>, <<255, 0, 0>>, <<0, 176, 80>>, <<255, 255, 255>>,
     <<242, 242, 242>>, <<102, 102, 102>>, <<68, 114, 196>>, <<237, 125, 49>>,
     <<165, 165, 165>>, <<255, 192, 0>>, <<91, 155, 213>>, <<112, 173, 71>>}

UpperDigits == <<"0", "1", "2", "3", "4", "5", "6", "7",
                 "8", "9", "A", "B", "C", "D", "E", "F">>

\* the same color written with upper-case digits, which int(s, 16) reads too
HexColorUpper(rgb) ==
    "#" \o UpperDigits[(rgb[1] \div 16) + 1] \o UpperDigits[(rgb[1] % 16) + 1]
        \o UpperDigits[(rgb[2] \div 16) + 1] \o UpperDigits[(rgb[2] % 16) + 1]
        \o UpperDigits[(rgb[3] \div 16) + 1] \o UpperDigits[(rgb[3] % 16) + 1]

\* _parse_color(color) for a string: the triple a '#rrggbb' string reads
\* as, None for 'transparent', 'gradient' and other words
parse_color(color) ==
    IF \E rgb \in KnownRGBs : color \in {HexColor(rgb), HexColorUpper(rgb)}
    THEN [rgb |-> CHOOSE rgb \in KnownRGBs :
                      color \in {HexColor(rgb), HexColorUpper(rgb)}]
    ELSE None

\* slide.shapes.add_textbox / add_shape / add_picture at the object's place
add_shape(kind, obj) ==
    [shape_type |-> kind,
     left   |-> Inches(FloatDiv(obj.left, 72)),
     top    |-> Inches(FloatDiv(obj.top, 72)),
     width  |-> Inches(FloatDiv(obj.width, 72)),
     height |-> Inches(FloatDiv(obj.height, 72)),
     rotation |-> 0,
     fill   |-> [type |-> "NONE", fore_color |-> NoColor],
     line   |-> [fill |-> [type |-> "NONE", fore_color |-> NoColor], width |-> 0]]

\* _set_shape_properties(shape, obj)
set_shape_properties(shape, obj) ==
    LET fill == IF "fill" \in DOMAIN obj /\ parse_color(obj.fill) # None
                THEN [type |-> "SOLID",
                      fore_color |-> [kind |-> "rgb",
                                      rgb |-> parse_color(obj.fill).rgb]]
                ELSE shape.fill
        line1 == IF "stroke" \in DOMAIN obj /\ parse_color(obj.stroke) # None
                 THEN [shape.line EXCEPT
                         !.fill = [type |-> "SOLID",
                                   fore_color |-> [kind |-> "rgb",
                                                   rgb |-> parse_color(obj.stroke).rgb]]]
                 ELSE shape.line
        line2 == IF "stroke" \in DOMAIN obj /\ "strokeWidth" \in DOMAIN obj
                 THEN [line1 EXCEPT !.width = Pt(obj.strokeWidth)]
                 ELSE line1
    IN  [shape EXCEPT !.fill = fill, !.line = line2]

\* _set_text_properties(text_frame, obj): the run added to the first
\* paragraph (sizes are whole points in the model)
set_text_properties(shape, obj) ==
    IF "text" \notin DOMAIN obj THEN shape
    ELSE Merge(shape,
           [text |-> obj.text,
            font |-> Merge(Merge(
                       IF "fontSize" \in DOMAIN obj
                       THEN [size |-> Pt(IntDiv(obj.fontSize, 1))] ELSE EmptyDict,
                       IF "fontFamily" \in DOMAIN obj
                       THEN [name |-> obj.fontFamily] ELSE EmptyDict),
                       IF "fill" \in DOMAIN obj /\ parse_color(obj.fill) # None
                       THEN [color |-> parse_color(obj.fill).rgb] ELSE EmptyDict),
            alignment |-> IF "textAlign" \in DOMAIN obj THEN obj.textAlign
                          ELSE "inherit"])

\* obj["src"].startswith("data:image"): a 'src' is either the data URI of an
\* image, kept as the image's content type and bytes, or the address of one
IsDataImage(src) == "blob" \in DOMAIN src

\* a slip _create_shape_from_fabric could hold: a textbox added for an
\* object of any other kind, and for one without a kind
create_shape_for_any_kind(obj) ==
    LET shape ==
          CASE "type" \notin DOMAIN obj -> add_shape("TEXT_BOX", obj)
            [] obj.type = "textbox" ->
                 set_text_properties(add_shape("TEXT_BOX", obj), obj)
            [] obj.type \in {"rect", "path"} ->
                 IF "MSO_SHAPE" \in ConverterGlobals
                 THEN set_shape_properties(add_shape("AUTO_SHAPE", obj), obj)
                 ELSE None
            [] obj.type = "image" ->
                 IF "src" \in DOMAIN obj /\ IsDataImage(obj.src)
                 THEN Merge(add_shape("PICTURE", obj), [image |-> obj.src])
                 ELSE None
            [] OTHER -> add_shape("TEXT_BOX", obj)
    IN  IF shape # None /\ "angle" \in DOMAIN obj
        THEN [shape EXCEPT !.rotation = obj.angle]
        ELSE shape

\* a slip _create_shape_from_fabric could hold: the rotation read from the
\* key 'rotation' of the forward conversion when the object has no 'angle'
create_shape_reading_rotation(obj) ==
    LET shape ==
          CASE "type" \notin DOMAIN obj -> None
            [] obj.type = "textbox" ->
                 set_text_properties(add_shape("TEXT_BOX", obj), obj)
            [] obj.type \in {"rect", "path"} ->
                 IF "MSO_SHAPE" \in ConverterGlobals
                 THEN set_shape_properties(add_shape("AUTO_SHAPE", obj), obj)
                 ELSE None
            [] obj.type = "image" ->
                 IF "src" \in DOMAIN obj /\ IsDataImage(obj.src)
                 THEN Merge(add_shape("PICTURE", obj), [image |-> obj.src])
                 ELSE None
            [] OTHER -> None
    IN  IF shape = None THEN None
        ELSE IF "angle" \in DOMAIN obj
        THEN [shape EXCEPT !.rotation = obj.angle]
        ELSE IF "rotation" \in DOMAIN obj
        THEN [shape EXCEPT !.rotation = obj.rotation]
        ELSE shape

\* _create_shape_from_fabric(slide, obj): the shape added to the slide, None
\* when none is.  The branches for 'rect' and 'path' name MSO_SHAPE, which
\* the module does not bind: NameError before add_shape is called, caught
\* by the handler, as is the KeyError of an object without 'type'.
create_shape_from_fabric(obj) ==
    LET shape ==
          CASE "type" \notin DOMAIN obj -> None
            [] obj.type = "textbox" ->
                 set_text_properties(add_shape("TEXT_BOX", obj), obj)
            [] obj.type \in {"rect", "path"} ->
                 IF "MSO_SHAPE" \in ConverterGlobals
                 THEN set_shape_properties(add_shape("AUTO_SHAPE", obj), obj)
                 ELSE None
            [] obj.type = "image" ->
                 IF "src" \in DOMAIN obj /\ IsDataImage(obj.src)
                 THEN Merge(add_shape("PICTURE", obj), [image |-> obj.src])
                 ELSE None
            [] OTHER -> None
    IN  IF shape # None /\ "angle" \in DOMAIN obj
        THEN [shape EXCEPT !.rotation = obj.angle]
        ELSE shape

\* `for obj in slide_data["objects"]: self._create_shape_from_fabric(...)`
RECURSIVE create_shapes(_)
create_shapes(objects) ==
    IF objects = <<>> THEN <<>>
    ELSE LET shape == create_shape_from_fabric(Head(objects))
         IN  (IF shape = None THEN <<>> ELSE <<shape>>)
             \o create_shapes(Tail(objects))

\* _get_slide_background(slide, color_handler)
get_slide_background(tc, slide) ==
    [type |-> "rect", left |-> 0, top |-> 0, width |-> "100%", height |-> "100%",
     fill |-> get_shape_color(tc, slide.background), selectable |-> FALSE]

\* _set_slide_background(slide, background): the background fill afterwards
set_slide_background(background) ==
    IF /\ background # None
       /\ "fill" \in DOMAIN background
       /\ parse_color(background.fill) # None
    THEN [type |-> "SOLID",
          fore_color |-> [kind |-> "rgb", rgb |-> parse_color(background.fill).rgb]]
    ELSE [type |-> "NONE", fore_color |-> NoColor]

\* fabric_to_pptx(fabric_data) without a template: the presentation
\* returned; fabric_data[0] of an empty list raises IndexError
fabric_to_pptx(fabric_data) ==
    IF fabric_data = <<>> THEN [raised |-> "IndexError"]
    ELSE [slide_width  |-> FloatToInt(FloatMul(fabric_data[1].width, 12700)),
          slide_height |-> FloatToInt(FloatMul(fabric_data[1].height, 12700)),
          slides |-> [i \in DOMAIN fabric_data |->
                        [background |->
                            IF "background" \in DOMAIN fabric_data[i]
                            THEN set_slide_background(fabric_data[i].background)
                            ELSE [type |-> "NONE", fore_color |-> NoColor],
                         shapes |-> create_shapes(fabric_data[i].objects)]]]

\* the slide record pptx_to_fabric builds around the objects of a slide
slide_data(tc, prs, slide, slide_index, objects) ==
    [objects     |-> objects,
     width       |-> IntDiv(prs.slide_width, 12700),
     height      |-> IntDiv(prs.slide_height, 12700),
     slideNumber |-> slide_index + 1,
     background  |-> get_slide_background(tc, slide)]

\* what a shape's data adds to slide_data["objects"]: nothing for None, the
\* objects of a group, the data itself otherwise
added_objects(shape_data) ==
    IF shape_data = None THEN <<>>
    ELSE IF shape_data.type = "group" THEN shape_data.objects
    ELSE <<shape_data>>

\* `for shape in slide.shapes`: the lists slide_data["objects"] can end as
RECURSIVE slide_objects(_, _)
slide_objects(tc, shapes) ==
    IF shapes = <<>> THEN {<<>>}
    ELSE { added_objects(shape_data) \o rest :
             shape_data \in process_shape(tc, Head(shapes)),
             rest \in slide_objects(tc, Tail(shapes)) }

\* the debug prints of pptx_to_fabric (self.debug is True) read
\* shape.shape_type and shape.name of every shape of a slide before
\* process_shape is called, outside its handler
DebugRead == {"shape_type", "name"}

\* `for slide_index, slide in enumerate(prs.slides)` from the slide at
\* position i on: the lists slides_data can end as
RECURSIVE slides_data(_, _, _)
slides_data(tc, prs, i) ==
    IF i > Len(prs.slides) THEN {<<>>}
    ELSE { <<slide_data(tc, prs, prs.slides[i], i - 1, objects)>> \o rest :
             objects \in slide_objects(tc, prs.slides[i].shapes),
             rest \in slides_data(tc, prs, i + 1) }

\* the slides pptx_to_fabric can return for the presentation, or the
\* exception a debug print raised, which its handler re-raises
convert_slides(tc, prs) ==
    IF \E i \in DOMAIN prs.slides : \E j \in DOMAIN prs.slides[i].shapes :
           prs.slides[i].shapes[j].raises \cap DebugRead # {}
    THEN {[raised |-> "NotImplementedError"]}
    ELSE { [slides |-> s] : s \in slides_data(tc, prs, 1) }

\* the files of _preprocess_pptx_file: the directory tempfile.mkdtemp()
\* makes, the upload saved in it, what the archive unpacks to, and the
\* archive written again
TempDir == "/tmp/tmpdir"
OriginalPptx == "/tmp/tmpdir/original.pptx"
FixedPptx == "/tmp/tmpdir/fixed.pptx"
Unpacked == {"/tmp/tmpdir/[Content_Types].xml", "/tmp/tmpdir/ppt/presentation.xml"}

\* _preprocess_pptx_file(pptx_file) on the files fs: the path returned (or
\* the exception of mkdtemp, which is outside the try) and the files
\* afterwards.  pptx_file.fails is the step that raises: "mkdtemp", "save",
\* "extract" (the upload is not an archive), "write", or "none".  The except
\* clause returns temp_pptx_path, and the finally clause removes that file.
preprocess_pptx_file(fs, pptx_file) ==
    CASE pptx_file.fails = "mkdtemp" ->
           [raised |-> "OSError", files |-> fs]
      [] pptx_file.fails = "save" ->
           [path |-> OriginalPptx, files |-> fs \cup {TempDir}]
      [] pptx_file.fails = "extract" ->
           [path |-> OriginalPptx, files |-> fs \cup {TempDir}]
      [] pptx_file.fails = "write" ->
           [path |-> OriginalPptx,
            files |-> fs \cup {TempDir, FixedPptx} \cup Unpacked]
      [] OTHER ->
           [path |-> FixedPptx,
            files |-> fs \cup {TempDir, FixedPptx} \cup Unpacked]

\* the finally clause of pptx_to_fabric: when the processed file exists, it
\* and the directory it is in are removed, with all that is in the directory
cleanup(fs, processed_pptx) ==
    IF processed_pptx # None /\ processed_pptx.path \in fs
    THEN fs \ ({TempDir, OriginalPptx, FixedPptx} \cup Unpacked)
    ELSE fs

\* pptx_to_fabric(pptx_file) on the files fs: what the call can end as.
\* Presentation(path) raises for a path that does not exist and for a
\* package it cannot read.  theme_colors is the table of the ColorHandler
\* made for the presentation, None when none was made; processed_pptx is
\* the local of that name, a path kept as [path |-> string].
pptx_to_fabric(fs, pptx_file) ==
    LET pre == preprocess_pptx_file(fs, pptx_file)
    IN  IF "raised" \in DOMAIN pre
        THEN {[result |-> [raised |-> pre.raised], theme_colors |-> None,
               processed_pptx |-> None, files |-> cleanup(pre.files, None)]}
        ELSE IF pre.path \notin pre.files \/ ~pptx_file.loadable
        THEN {[result |-> [raised |-> "PackageNotFoundError"],
               theme_colors |-> None,
               processed_pptx |-> [path |-> pre.path],
               files |-> cleanup(pre.files, [path |-> pre.path])]}
        ELSE LET tc == extract_theme_colors(pptx_file.prs)
             IN  { [result |-> outcome, theme_colors |-> tc,
                    processed_pptx |-> [path |-> pre.path],
                    files |-> cleanup(pre.files, [path |-> pre.path])] :
                     outcome \in convert_slides(tc, pptx_file.prs) }

(***************************************************************************)
(* The application (src/app.py).                                           *)
(***************************************************************************)
\* the end of the handler of POST /fabric-to-pptx: the presentation saved
\* and sent as a file, or 500 with the exception's text when the
\* conversion raised
send_presentation(prs) ==
    IF "raised" \in DOMAIN prs
    THEN [status |-> 500, error |-> prs.raised]
    ELSE [status |-> 200, prs |-> prs]

\* convert_fabric_to_pptx(), the handler of POST /fabric-to-pptx, for the
\* JSON body request_json: 400 for a body that is empty or has no 'fabric',
\* and otherwise what the conversion of request_json['fabric'] ends as
convert_fabric_to_pptx(request_json) ==
    IF "fabric" \notin DOMAIN request_json
    THEN [status |-> 400, error |-> "No Fabric.js data provided"]
    ELSE send_presentation(fabric_to_pptx(request_json.fabric))

(***************************************************************************)
(* The documents of the model.                                             *)
(***************************************************************************)
MaxNative == 130    \* the native lengths 0..MaxNative are all converted

SolidFill(rgb) == [type |-> "SOLID", fore_color |-> [kind |-> "rgb", rgb |-> rgb]]

SchemeFill(role) ==
    [type |-> "SOLID", fore_color |-> [kind |-> "scheme", theme_color |-> role]]

PlainFill(type) == [type |-> type, fore_color |-> NoColor]

\* the fills of a shape: no fill attribute, no fill element (type None),
\* a:noFill (BACKGROUND), solid with an RGB color, with a theme color (whose
\* str() is 'ACCENT_1 (5)', or the bare role in another library build), with
\* no color, gradient, pattern
Fills ==
    {None, PlainFill("NONE"), PlainFill("BACKGROUND"),
     SolidFill(<<255, 0, 0>>), SolidFill(<<0, 176, 80>>),
     SchemeFill("ACCENT_1 (5)"), SchemeFill("ACCENT_1"),
     PlainFill("SOLID"), PlainFill("GRADIENT"), PlainFill("PATTERNED")}

\* the fills the claims call empty
EmptyFills == {None, PlainFill("NONE"), PlainFill("BACKGROUND")}

Lines ==
    {None,
     [fill |-> PlainFill("NONE"), width |-> 0],
     [fill |-> PlainFill("BACKGROUND"), width |-> 25400],
     [fill |-> SolidFill(<<0, 0, 0>>), width |-> 12700]}

NoMarkup == [a_spPr |-> <<>>, alphaModFix |-> <<>>, a_path |-> <<>>]

ShapeText ==
    [paragraphs |-> <<[align |-> "left",
                       runs  |-> <<[text |-> <<"a">>, font |-> FontItalic]>>]>>]

Image == [content_type |-> "png", blob |-> "iVBORw0KGgo="]

\* a one-inch by half-inch shape of the given kind, one inch from the left
Shape(kind) ==
    [shape_type |-> kind, auto_shape_type |-> "RECTANGLE",
     left |-> 914400, top |-> 457200, width |-> 914400, height |-> 457200,
     rotation |-> 0,
     fill |-> SolidFill(<<255, 0, 0>>),
     line |-> [fill |-> PlainFill("NONE"), width |-> 0],
     text_frame |-> IF kind = "TEXT_BOX" THEN ShapeText ELSE None,
     image |-> IF kind = "PICTURE" THEN Image ELSE None,
     element |-> NoMarkup,
     shapes |-> <<>>,
     raises |-> {}]

\* a DrawingML shape-properties block inside the shape's element
AdvancedMarkup(gradFill, effectLst) ==
    [a_spPr |-> <<[gradFill |-> gradFill, custGeom |-> <<>>,
                   effectLst |-> effectLst]>>,
     alphaModFix |-> <<>>,
     a_path |-> IF gradFill = <<>> THEN <<>> ELSE gradFill[1].path]

OuterShadows ==
    {[attrs |-> [alpha |-> 50000, blurRad |-> 50800, dx |-> 38100, dy |-> 25400],
      srgbClr |-> <<"333333">>],
     [attrs |-> <<>>, srgbClr |-> <<>>]}

Glows ==
    {[attrs |-> [rad |-> 63500], srgbClr |-> <<"ffc000">>],
     [attrs |-> [rad |-> 12700, alpha |-> 60000], srgbClr |-> <<>>]}

SoftEdges == {[attrs |-> [rad |-> 31750]]}

EffectLists ==
    { [outerShdw |-> s, glow |-> g, softEdge |-> e] :
        s \in Opt(OuterShadows), g \in Opt(Glows), e \in Opt(SoftEdges) }

GradientStops ==
    {<<>>,
     <<[attrs |-> [pos |-> 0], srgbClr |-> <<"ff0000">>],
       [attrs |-> [pos |-> 100000], srgbClr |-> <<"0000ff">>]>>,
     <<[attrs |-> <<>>, srgbClr |-> <<"ff0000">>],
       [attrs |-> [pos |-> 50000], srgbClr |-> <<>>],
       [attrs |-> [pos |-> 0], srgbClr |-> <<"00b050">>]>>}

\* angles in 60000ths of a degree: 0, 45 and 90 degrees, and none given
Lins == {[attrs |-> [ang |-> 0]], [attrs |-> [ang |-> 2700000]],
         [attrs |-> [ang |-> 5400000]], [attrs |-> <<>>]}

GradFills ==
    { [lin |-> l, path |-> q, gs |-> g] :
        l \in Opt(Lins), q \in Opt({[attrs |-> [path |-> "circle"]]}),
        g \in GradientStops }

\* shapes with an effect list
EffectShapes ==
    { [Shape(kind) EXCEPT !.element = AdvancedMarkup(<<>>, eff)] :
        kind \in {"AUTO_SHAPE", "TEXT_BOX"}, eff \in Opt(EffectLists) }

\* shapes with a gradient fill
GradientShapes ==
    { [Shape(kind) EXCEPT !.fill = PlainFill("GRADIENT"),
                          !.element = AdvancedMarkup(<<gf>>, <<>>)] :
        kind \in {"AUTO_SHAPE", "TEXT_BOX", "PICTURE", "LINE"}, gf \in GradFills }
    \cup
    { [Shape("AUTO_SHAPE") EXCEPT !.fill = PlainFill("GRADIENT"),
                                  !.element = AdvancedMarkup(<<gf>>, <<eff>>)] :
        gf \in {g \in GradFills : g.gs # <<>> /\ g.path # <<>>},
        eff \in {e \in EffectLists : e.glow = <<>>} }

\* auto-shapes and lines with every fill and line
FilledShapes ==
    { [Shape(kind) EXCEPT !.auto_shape_type = ast, !.rotation = rot,
                          !.fill = f, !.line = l] :
        kind \in {"AUTO_SHAPE"},
        ast \in {"RECTANGLE", "ISOSCELES_TRIANGLE"}, rot \in {0, 90, 270},
        f \in Fills, l \in Lines }
    \cup
    { [Shape("LINE") EXCEPT !.fill = None, !.line = l] : l \in Lines }

\* textboxes at every native length
SweptShapes ==
    { [Shape("TEXT_BOX") EXCEPT !.left = x, !.top = 12700 * x,
                                !.width = 914400 + x, !.height = 6858000 - x] :
        x \in 0..MaxNative }

Pictures ==
    { [Shape("PICTURE") EXCEPT !.fill = None, !.line = None, !.image = img,
                               !.element = [NoMarkup EXCEPT !.alphaModFix = a]] :
        img \in {None, Image},
        a \in Opt({[attrs |-> [amt |-> 50000]], [attrs |-> <<>>]}) }

\* kinds process_shape has no branch for
OtherShapes == { Shape(kind) : kind \in {"PLACEHOLDER", "CHART"} }

\* a textbox and a picture turned by a quarter and by three quarters
RotatedShapes ==
    { [Shape("TEXT_BOX") EXCEPT !.rotation = rot] : rot \in {90, 270} }
    \cup { [Shape("PICTURE") EXCEPT !.fill = None, !.line = None,
                                    !.rotation = rot] : rot \in {90, 270} }

\* shapes of which an attribute cannot be read: a p:sp that is none of the
\* kinds the library knows (shape_type raises NotImplementedError), and a
\* shape without a position (left is None, and None / 12700 raises)
RaisingShapes ==
    { [Shape("AUTO_SHAPE") EXCEPT !.raises = {a}] : a \in {"shape_type", "left"} }

\* the children of a:path elements: a:pt, and the commands
APt(x, y) == [attrs |-> [x |-> x, y |-> y]]

Command(tag, pts) == [tag |-> tag, attrs |-> <<>>, pts |-> pts]

\* the commands of the paths: a move, a line, a cubic curve with 3, with 2
\* and with 4 points, a close, and an arc of 90 degrees
Commands ==
    {Command("moveTo", <<APt(127000, 63500)>>),
     Command("lnTo", <<APt(1270000, 6350)>>),
     Command("cubicBezTo", <<APt(0, 12700), APt(25400, 38100), APt(50800, 0)>>),
     Command("cubicBezTo", <<APt(0, 12700), APt(25400, 38100)>>),
     Command("cubicBezTo", <<APt(0, 12700), APt(25400, 38100), APt(50800, 0),
                             APt(63500, 63500)>>),
     Command("close", <<>>),
     [tag |-> "arcTo", pts |-> <<>>,
      attrs |-> [wR |-> 100000, hR |-> 50000, stAng |-> 0, swAng |-> 5400000]]}

MaxCommands == 3    \* commands of a freeform's path

\* a:path elements
Paths ==
    { [commands |-> cmds] :
        cmds \in UNION { [1..n -> Commands] : n \in 0..MaxCommands } }

\* a path whose move has no point
PointlessPath ==
    [commands |-> <<Command("moveTo", <<>>), Command("lnTo", <<APt(12700, 0)>>)>>]

\* freeforms: the outline is the custom geometry of the shape's own
\* properties block, which is not a DrawingML a:spPr; one has no a:path
Freeforms ==
    { [Shape("FREEFORM") EXCEPT !.element = [NoMarkup EXCEPT !.a_path = q]] :
        q \in {<<>>, <<PointlessPath>>} \cup { <<p>> : p \in Paths } }

\* a triangle drawn with lines and closed, and the same outline left open
ClosedOutline ==
    [commands |-> <<Command("moveTo", <<APt(0, 0)>>),
                    Command("lnTo", <<APt(1270000, 0)>>),
                    Command("lnTo", <<APt(635000, 1270000)>>),
                    Command("close", <<>>)>>]

OpenOutline == [commands |-> SubSeq(ClosedOutline.commands, 1, 3)]

\* a:custGeom elements: the text rectangle or none, the path list or none
CustGeoms ==
    { [rect |-> r, pathLst |-> pl] :
        r  \in Opt({[attrs |-> [l |-> 0, t |-> 12700, r |-> 100000, b |-> 50000]],
                    [attrs |-> <<>>]}),
        pl \in Opt({[paths |-> <<>>],
                    [paths |-> <<ClosedOutline>>],
                    [paths |-> <<[commands |-> <<>>], OpenOutline, ClosedOutline>>],
                    [paths |-> <<PointlessPath>>]}) }

\* shapes with a custom geometry inside a DrawingML a:spPr
GeometryShapes ==
    { [Shape(kind) EXCEPT
         !.element = [a_spPr |-> <<[gradFill |-> <<>>, custGeom |-> <<cg>>,
                                    effectLst |-> <<>>]>>,
                      alphaModFix |-> <<>>,
                      a_path |-> IF cg.pathLst = <<>> THEN <<>>
                                 ELSE cg.pathLst[1].paths]] :
        kind \in {"AUTO_SHAPE", "FREEFORM"}, cg \in CustGeoms }

\* the shapes a group is made of in the model: a rectangle, a textbox, a
\* placeholder and a shape without a position, and the groups of one shape
Leaves ==
    {Shape("AUTO_SHAPE"), Shape("TEXT_BOX"), Shape("PLACEHOLDER"),
     [Shape("AUTO_SHAPE") EXCEPT !.raises = {"left"}]}

Group(shapes) ==
    [Shape("GROUP") EXCEPT !.fill = None, !.line = None, !.shapes = shapes]

InnerGroups == {Group(<<Shape("AUTO_SHAPE")>>), Group(<<Shape("PLACEHOLDER")>>)}

MaxChildren == 2    \* shapes of a group

\* groups, and one nested three deep
Groups ==
    { Group(shapes) :
        shapes \in UNION { [1..n -> Leaves \cup InnerGroups] : n \in 0..MaxChildren } }
    \cup {Group(<<Group(<<Group(<<Shape("AUTO_SHAPE")>>), Shape("TEXT_BOX")>>)>>)}

ShapeInputs ==
    EffectShapes \cup GradientShapes \cup FilledShapes \cup SweptShapes
        \cup Pictures \cup OtherShapes \cup RotatedShapes \cup RaisingShapes
        \cup Freeforms
        \cup GeometryShapes \cup Groups

\* the presentation the shapes are in: a 16:9 deck, its slide background
\* without a fill or white
Deck == [slide_width |-> 12192000, slide_height |-> 6858000]

Backgrounds == {PlainFill("BACKGROUND"), SolidFill(<<255, 255, 255>>)}

\* runs whose font color is an RGB color, a theme color, or not set
ColoredRuns ==
    { [text |-> "a", font |-> [color |-> c]] :
        c \in {SolidFill(<<255, 0, 0>>).fore_color, SolidFill(<<0, 0, 0>>).fore_color,
               SchemeFill("ACCENT_1 (5)").fore_color,
               SchemeFill("ACCENT_1").fore_color, NoColor} }

\* the color children of an element of a:clrScheme
ColorElement(srgbClr, sysClr, schemeClr) ==
    [srgbClr |-> srgbClr, sysClr |-> sysClr, schemeClr |-> schemeClr]

SrgbClr(val) == ColorElement(<<[attrs |-> [val |-> val]]>>, <<>>, <<>>)

\* the scheme of the Office theme
OfficeScheme ==
    [dk1 |-> ColorElement(<<>>, <<[attrs |-> [val |-> "windowText",
                                              lastClr |-> "000000"]]>>, <<>>),
     lt1 |-> ColorElement(<<>>, <<[attrs |-> [val |-> "window",
                                              lastClr |-> "FFFFFF"]]>>, <<>>),
     dk2 |-> SrgbClr("44546A"), lt2 |-> SrgbClr("E7E6E6"),
     accent1 |-> SrgbClr("5B9BD5"), accent2 |-> SrgbClr("ED7D31"),
     accent3 |-> SrgbClr("A5A5A5"), accent4 |-> SrgbClr("FFC000"),
     accent5 |-> SrgbClr("4472C4"), accent6 |-> SrgbClr("70AD47")]

\* a scheme with a system color that declares no lastClr, an element with
\* both an RGB and a system color, one with a scheme color, one with no
\* color, and the other elements missing
SparseScheme ==
    [dk1 |-> ColorElement(<<>>, <<[attrs |-> [val |-> "windowText"]]>>, <<>>),
     lt1 |-> ColorElement(<<[attrs |-> [val |-> "FAFAFA"]]>>,
                          <<[attrs |-> [val |-> "window", lastClr |-> "FFFFFF"]]>>,
                          <<>>),
     accent1 |-> ColorElement(<<>>, <<>>, <<[attrs |-> [val |-> "tx1"]]>>),
     accent2 |-> ColorElement(<<>>, <<>>, <<>>)]

\* a scheme with none of the ten elements
LinkScheme == [hlink |-> SrgbClr("0563C1"), folHlink |-> SrgbClr("954F72")]

\* the layouts of a slide: the part has no slide_layout, the layout has no
\* theme attribute, the theme has no color scheme, or it has one
Layouts ==
    {<<>>, <<[theme |-> <<>>]>>}
    \cup { <<[theme |-> <<[clrScheme |-> cs]>>]>> :
             cs \in Opt({OfficeScheme, SparseScheme, LinkScheme}) }

Slide(shapes, slide_layout) ==
    [shapes |-> shapes, background |-> [fill |-> PlainFill("BACKGROUND")],
     slide_layout |-> slide_layout]

Presentation(slides) == Merge(Deck, [slides |-> slides])

\* documents without shapes: no slide, and one slide with every layout
ThemeDocs ==
    {Presentation(<<>>)}
    \cup { Presentation(<<Slide(<<>>, l)>>) : l \in Layouts }
    \cup { Presentation(<<Slide(<<[Shape("AUTO_SHAPE") EXCEPT !.fill = f]>>, l)>>) :
             l \in Layouts, f \in {SchemeFill("ACCENT_1 (5)"), SchemeFill("ACCENT_1")} }

\* the shapes of the documents: a rectangle, a shape without a position,
\* a p:sp of no known kind, and a group with a group in it
DocShapes ==
    {Shape("AUTO_SHAPE")} \cup RaisingShapes
    \cup {Group(<<Group(<<Shape("AUTO_SHAPE")>>), Shape("TEXT_BOX")>>)}

\* documents of one slide with groups: of two shapes, of nothing that gives
\* an object, and nested three deep, each followed by a line
GroupDocs ==
    { Presentation(<<Slide(<<g, Shape("LINE")>>, <<[theme |-> <<>>]>>)>>) :
        g \in {Group(<<Shape("AUTO_SHAPE"), Shape("TEXT_BOX")>>),
               Group(<<Shape("PLACEHOLDER")>>),
               Group(<<Group(<<Group(<<Shape("AUTO_SHAPE")>>),
                               Shape("TEXT_BOX")>>)>>)} }

MaxSlides == 2      \* slides of a document
MaxShapes == 2      \* shapes of a document, all slides together

\* the ways to deal the shapes s, in order, to m slides
Deals(s, m) ==
    { [i \in 1..m |-> SubSeq(s, c[i] + 1, c[i + 1])] :
        c \in { d \in [1..(m + 1) -> 0..Len(s)] :
                  /\ d[1] = 0
                  /\ d[m + 1] = Len(s)
                  /\ \A i \in 1..m : d[i] <= d[i + 1] } }

\* documents of up to MaxSlides slides and MaxShapes shapes
ShapeDocs ==
    UNION { { Presentation([i \in 1..m |-> Slide(deal[i], <<[theme |-> <<>>]>>)]) :
                deal \in Deals(s, m) } :
            s \in UNION { [1..n -> DocShapes] : n \in 0..MaxShapes },
            m \in 1..MaxSlides }

\* what is uploaded: a document, a document for which the archive cannot
\* be written again (the disk is full), or something a step of the
\* preprocessing or the load fails on
Uploads ==
    { [fails |-> "none", loadable |-> TRUE, prs |-> prs] :
        prs \in ThemeDocs \cup GroupDocs \cup ShapeDocs }
    \cup { [fails |-> "write", loadable |-> TRUE, prs |-> prs] :
             prs \in ThemeDocs }
    \cup { [fails |-> f, loadable |-> FALSE, prs |-> None] :
             f \in {"mkdtemp", "save", "extract", "write", "none"} }

\* Scene Objects a client posts: at the place of the model's shapes, a
\* textbox, an image given by its data or by an address, a rectangle, an
\* object of a kind the reverse conversion has no branch for ('circle', and
\* the 'group' the forward conversion emits for a nested group) and an
\* object without 'type'
Place ==
    [left |-> IntDiv(914400, 12700), top |-> IntDiv(457200, 12700),
     width |-> IntDiv(914400, 12700), height |-> IntDiv(457200, 12700)]

PostedTextbox ==
    Merge(Place, [type |-> "textbox", text |-> <<"a">>, fontSize |-> 12,
                  fill |-> "#ff0000"])

PostedImage == Merge(Place, [type |-> "image", src |-> Image])

PostedLink ==
    Merge(Place, [type |-> "image", src |-> [url |-> "https://example.org/a.png"]])

PostedRect == Merge(Place, [type |-> "rect", fill |-> "#ff0000"])

PostedCircle == Merge(Place, [type |-> "circle", fill |-> "#ff0000"])

PostedGroup == Merge(Place, [type |-> "group", objects |-> <<PostedTextbox>>])

PostedNoKind == Merge(Place, [fill |-> "#ff0000"])

KnownKinds == {"textbox", "rect", "path", "image"}

\* the slides a client posts: the objects, the size of the deck in points,
\* and a background (a fill, null, or no key at all)
PostedSlide(objects) ==
    [objects |-> objects,
     width |-> IntDiv(12192000, 12700), height |-> IntDiv(6858000, 12700)]

PostedSlides ==
    { PostedSlide(objects) :
        objects \in {<<>>, <<PostedCircle>>, <<PostedImage>>, <<PostedRect>>,
                     <<PostedCircle, PostedTextbox>>,
                     <<PostedTextbox, PostedNoKind, PostedImage>>,
                     <<PostedGroup, PostedLink, PostedTextbox>>,
                     <<PostedRect, PostedTextbox>>} }
    \cup { Merge(PostedSlide(<<PostedTextbox>>), [background |-> bg]) :
             bg \in {None, [fill |-> "#FFFFFF"]} }

MaxPosted == 2      \* slides of a posted array

\* the JSON bodies posted to /fabric-to-pptx: null, an object without
\* 'fabric', and the arrays of up to MaxPosted slides
RequestBodies ==
    {None, [slides |-> <<>>]}
    \cup { [fabric |-> fabric_data] :
             fabric_data \in UNION { [1..n -> PostedSlides] : n \in 0..MaxPosted } }

(***************************************************************************)
(* The state machine.  One call is made at a time: call is the operation   *)
(* in hand and its argument, locals the intermediate values of the call,   *)
(* result what it returned.  A Scene Object returned by process_shape can  *)
(* be sent back as the only object of a slide and reverse-converted.       *)
(***************************************************************************)
Init ==
    /\ theme_colors = ThemeDefaults
    /\ call = [op |-> "idle"]
    /\ locals = None
    /\ result = None
    /\ files = {}

\* TextHandler.convert_to_fabric_text(text_props)
ConvertToFabricText ==
    /\ call.op = "idle"
    /\ \E tp \in TextProps :
         /\ call' = [op |-> "convert_to_fabric_text", arg |-> tp]
         /\ locals' = WalkParagraphs(WalkStart, tp.paragraphs, 1)
         /\ result' \in convert_to_fabric_text(tp)
    /\ UNCHANGED <<theme_colors, files>>

\* ShapeHandler.process_shape(shape)
ProcessShape ==
    /\ call.op = "idle"
    /\ \E shape \in ShapeInputs :
         /\ call' = [op |-> "process_shape", arg |-> shape]
         /\ locals' = [advanced_props |-> extract_shape_properties(shape),
                       fabric_props |->
                           IF extract_shape_properties(shape) = None THEN None
                           ELSE convert_to_fabric(extract_shape_properties(shape))]
         /\ result' \in process_shape(theme_colors, shape)
    /\ UNCHANGED <<theme_colors, files>>

\* PPTXFabricConverter.fabric_to_pptx on the slide pptx_to_fabric makes of
\* the shape just converted
FabricToPptx ==
    /\ call.op = "process_shape"
    /\ result # None
    /\ \E bg \in Backgrounds :
         LET fabric_data ==
                 <<slide_data(theme_colors, Deck, [background |-> [fill |-> bg]],
                              0, added_objects(result))>>
         IN  /\ call' = [op |-> "fabric_to_pptx", arg |-> fabric_data,
                         source |-> call.arg]
             /\ result' = fabric_to_pptx(fabric_data)
    /\ locals' = None
    /\ UNCHANGED <<theme_colors, files>>

\* convert_fabric_to_pptx(), the handler of POST /fabric-to-pptx; locals.added
\* is the number of slides fabric_to_pptx added before it returned or raised
ConvertFabricToPptx ==
    /\ call.op = "idle"
    /\ \E request_json \in RequestBodies :
         /\ call' = [op |-> "convert_fabric_to_pptx", arg |-> request_json]
         /\ result' = convert_fabric_to_pptx(request_json)
         /\ locals' = [added |-> IF "prs" \in DOMAIN result'
                                THEN Len(result'.prs.slides) ELSE 0]
    /\ UNCHANGED <<theme_colors, files>>

\* ColorHandler.get_text_color(run)
GetTextColor ==
    /\ call.op = "idle"
    /\ \E run \in ColoredRuns :
         /\ call' = [op |-> "get_text_color", arg |-> run]
         /\ result' = get_text_color(theme_colors, run)
    /\ locals' = None
    /\ UNCHANGED <<theme_colors, files>>

\* PPTXFabricConverter.pptx_to_fabric(pptx_file), with the ColorHandler it
\* constructs for the presentation
PptxToFabric ==
    /\ call.op = "idle"
    /\ \E pptx_file \in Uploads :
         \E end \in pptx_to_fabric(files, pptx_file) :
            /\ call' = [op |-> "pptx_to_fabric", arg |-> pptx_file]
            /\ locals' = [processed_pptx |-> end.processed_pptx]
            /\ result' = end.result
            /\ files' = end.files
            /\ theme_colors' = IF end.theme_colors = None THEN theme_colors
                               ELSE end.theme_colors

Next ==
    \/ ConvertToFabricText
    \/ ProcessShape
    \/ FabricToPptx
    \/ GetTextColor
    \/ PptxToFabric

Spec == Init /\ [][Next]_vars

(***************************************************************************)
(* One conversion, call by call.  pptx_to_fabric constructs a ColorHandler *)
(* for the presentation and hands it to the TextHandler and the            *)
(* ShapeHandler; from then on the handlers are called, in any order, on    *)
(* the shapes, fills, runs and texts of the document.  call.calls counts   *)
(* the calls made since the construction.                                  *)
(***************************************************************************)
MaxCalls == 3       \* handler calls of a conversion

\* what the handlers are called on during a conversion
ConversionShapes ==
    { [Shape("AUTO_SHAPE") EXCEPT !.fill = f] :
        f \in {SchemeFill("ACCENT_1 (5)"), SchemeFill("ACCENT_1"),
               SolidFill(<<255, 0, 0>>)} }
    \cup {Shape("TEXT_BOX"), Group(<<Shape("AUTO_SHAPE"), Shape("TEXT_BOX")>>)}

ConversionTexts == {[paragraphs |-> <<>>], ShapeText}

\* ColorHandler.__init__(presentation): the table is built
Construct ==
    /\ call.op = "idle"
    /\ \E prs \in ThemeDocs :
         /\ theme_colors' = extract_theme_colors(prs)
         /\ call' = [op |-> "ColorHandler", arg |-> prs, calls |-> 0]
    /\ locals' = None
    /\ result' = None
    /\ UNCHANGED files

\* a slip get_shape_color could hold: the color it resolved kept in the
\* table under the name it looked up
GetShapeColorKept ==
    /\ call.op # "idle"
    /\ call.calls < MaxCalls
    /\ \E f \in Fills :
         LET obj == [Shape("AUTO_SHAPE") EXCEPT !.fill = f]
         IN  /\ call' = [op |-> "get_shape_color", arg |-> obj,
                         calls |-> call.calls + 1]
             /\ result' = get_shape_color(theme_colors, obj)
             /\ theme_colors' =
                    IF f # None /\ f.type = "SOLID" /\ f.fore_color.kind = "scheme"
                    THEN Merge(theme_colors,
                               [k \in {f.fore_color.theme_color} |-> result'])
                    ELSE theme_colors
    /\ locals' = None
    /\ UNCHANGED files

\* ColorHandler.get_shape_color(shape), called during the conversion
GetShapeColorCall ==
    /\ call.op # "idle"
    /\ call.calls < MaxCalls
    /\ \E f \in Fills :
         LET obj == [Shape("AUTO_SHAPE") EXCEPT !.fill = f]
         IN  /\ call' = [op |-> "get_shape_color", arg |-> obj,
                         calls |-> call.calls + 1]
             /\ result' = get_shape_color(theme_colors, obj)
    /\ locals' = None
    /\ UNCHANGED <<theme_colors, files>>

\* ColorHandler.get_text_color(run), called during the conversion
GetTextColorCall ==
    /\ call.op # "idle"
    /\ call.calls < MaxCalls
    /\ \E run \in ColoredRuns :
         /\ call' = [op |-> "get_text_color", arg |-> run,
                     calls |-> call.calls + 1]
         /\ result' = get_text_color(theme_colors, run)
    /\ locals' = None
    /\ UNCHANGED <<theme_colors, files>>

\* ShapeHandler.process_shape(shape), called during the conversion
ProcessShapeCall ==
    /\ call.op # "idle"
    /\ call.calls < MaxCalls
    /\ \E shape \in ConversionShapes :
         /\ call' = [op |-> "process_shape", arg |-> shape,
                     calls |-> call.calls + 1]
         /\ result' \in process_shape(theme_colors, shape)
    /\ locals' = None
    /\ UNCHANGED <<theme_colors, files>>

\* TextHandler.convert_to_fabric_text(text_props), called during the
\* conversion
ConvertToFabricTextCall ==
    /\ call.op # "idle"
    /\ call.calls < MaxCalls
    /\ \E tp \in ConversionTexts :
         /\ call' = [op |-> "convert_to_fabric_text", arg |-> tp,
                     calls |-> call.calls + 1]
         /\ result' \in convert_to_fabric_text(tp)
    /\ locals' = None
    /\ UNCHANGED <<theme_colors, files>>

ConversionNext ==
    \/ Construct
    \/ GetShapeColorCall
    \/ GetTextColorCall
    \/ ProcessShapeCall
    \/ ConvertToFabricTextCall

Conversion == Init /\ [][ConversionNext]_vars

(***************************************************************************)
(* The application.  Each POST to /fabric-to-pptx is served on its own: the *)
(* handler makes a converter and converts the body of the request.         *)
(***************************************************************************)
RequestsNext == ConvertFabricToPptx

Requests == Init /\ [][RequestsNext]_vars

(***************************************************************************)
(* Claims about the text model extractor.                                  *)
(***************************************************************************)
IsTextCall == call.op = "convert_to_fabric_text"

RECURSIVE Flatten(_)
Flatten(ss) == IF ss = <<>> THEN <<>> ELSE Head(ss) \o Flatten(Tail(ss))

\* the runs of a textbox in document order, and those that carry text
AllRuns(tp) == Flatten([p \in DOMAIN tp.paragraphs |-> tp.paragraphs[p].runs])
TextRuns(tp) == SelectSeq(AllRuns(tp), LAMBDA run : run.text # <<>>)

Sizes(rs)    == [i \in DOMAIN rs |-> rs[i].font.size]
Families(rs) == [i \in DOMAIN rs |-> rs[i].font.name]
Colors(rs)   == [i \in DOMAIN rs |-> rs[i].font.color]
ParaAligns(tp) == [p \in DOMAIN tp.paragraphs |-> tp.paragraphs[p].align]

\* v occurs in xs at least as often as every other value
IsMode(xs, v) == \A w \in Values(xs) : Count(xs, w) <= Count(xs, v)

\* C2 as stated: the whole-box fontSize, fontFamily and fill are each a most
\* frequent value among ALL runs of the textbox, and textAlign a most
\* frequent value among all paragraphs.
C2_ModeOverAllRuns ==
    IsTextCall =>
        /\ IsMode(Sizes(AllRuns(call.arg)), result.fontSize)
        /\ IsMode(Families(AllRuns(call.arg)), result.fontFamily)
        /\ IsMode(Colors(AllRuns(call.arg)), result.fill)
        /\ IsMode(ParaAligns(call.arg), result.textAlign)

\* C2 amended: the whole-box fontSize, fontFamily and fill are each a most
\* frequent value among the runs that carry text (a run with empty text is
\* not counted) and are taken from those runs when there is one; textAlign
\* is a most frequent alignment among all paragraphs.
C2_ModeOverTextRuns ==
    IsTextCall =>
        LET rs == TextRuns(call.arg)
        IN  /\ IsMode(Sizes(rs), result.fontSize)
            /\ IsMode(Families(rs), result.fontFamily)
            /\ IsMode(Colors(rs), result.fill)
            /\ IsMode(ParaAligns(call.arg), result.textAlign)
            /\ rs # <<>> =>
                 /\ result.fontSize \in Values(Sizes(rs))
                 /\ result.fontFamily \in Values(Families(rs))
                 /\ result.fill \in Values(Colors(rs))
            /\ call.arg.paragraphs # <<>> =>
                 result.textAlign \in Values(ParaAligns(call.arg))

\* three runs with text, of sizes 12, 12 and 18, gave fontSize 12
C2_Witness ==
    /\ IsTextCall
    /\ Sizes(TextRuns(call.arg)) = <<12, 12, 18>>
    /\ AllRuns(call.arg) = TextRuns(call.arg)
    /\ result.fontSize = 12

\* the value of xs with the largest count that occurs first in xs
FirstSeenMode(xs) ==
    xs[CHOOSE i \in DOMAIN xs :
          /\ IsMode(xs, xs[i])
          /\ \A j \in DOMAIN xs : IsMode(xs, xs[j]) => i <= j]

\* C3: when several values are tied for most frequent, the whole-box property
\* is the tied value that was seen first in document order.
C3_TieFirstSeen ==
    IsTextCall =>
        LET rs == TextRuns(call.arg)
        IN  /\ rs # <<>> =>
                 /\ result.fontSize = FirstSeenMode(Sizes(rs))
                 /\ result.fontFamily = FirstSeenMode(Families(rs))
                 /\ result.fill = FirstSeenMode(Colors(rs))
            /\ call.arg.paragraphs # <<>> =>
                 result.textAlign = FirstSeenMode(ParaAligns(call.arg))

\* the text of paragraph p: its run texts, concatenated
ParagraphText(paragraph) ==
    Flatten([r \in DOMAIN paragraph.runs |-> paragraph.runs[r].text])

RECURSIVE JoinLines(_)
JoinLines(ps) ==
    IF ps = <<>> THEN <<>>
    ELSE IF Len(ps) = 1 THEN ParagraphText(ps[1])
    ELSE ParagraphText(ps[1]) \o <<NewLine>> \o JoinLines(Tail(ps))

\* C4: the emitted text is the paragraphs' texts with exactly one newline
\* between every two consecutive paragraphs and none after the last, for
\* every paragraph sequence, also one that repeats a paragraph.
C4_NewlineBetweenParagraphs ==
    IsTextCall => result.text = JoinLines(call.arg.paragraphs)

\* C5: every character of every run with text has, at its offset in the
\* emitted text, a style entry with that run's own font family, size, weight,
\* style and color; the offset of a paragraph-joining newline has no entry;
\* every key of the style map is an offset of the emitted text.
C5_StyleMapByOffset ==
    IsTextCall =>
        LET ps == call.arg.paragraphs
        IN  /\ Len(locals.origin) = Len(result.text)
            /\ \A p \in DOMAIN ps : \A r \in DOMAIN ps[p].runs :
                   \A k \in DOMAIN ps[p].runs[r].text :
                       \E i \in DOMAIN locals.origin : locals.origin[i] = <<p, r, k>>
            /\ \A i \in DOMAIN result.text :
                 LET o == locals.origin[i]
                 IN  IF o[2] = 0
                     THEN /\ result.text[i] = NewLine
                          /\ (i - 1) \notin DOMAIN result.styles
                     ELSE LET run == ps[o[1]].runs[o[2]]
                              st  == result.styles[i - 1]
                          IN  /\ result.text[i] = run.text[o[3]]
                              /\ (i - 1) \in DOMAIN result.styles
                              /\ st.fontFamily = run.font.name
                              /\ st.fontSize = run.font.size
                              /\ st.fontWeight = (IF run.font.bold THEN "bold" ELSE "normal")
                              /\ st.fontStyle = (IF run.font.italic THEN "italic" ELSE "normal")
                              /\ st.fill = run.font.color
            /\ \A key \in DOMAIN result.styles : key \in 0..(Len(result.text) - 1)

\* two paragraphs with differently styled runs were joined by a newline, and
\* the run after the newline has a style that is not the whole-box one
C5_Witness ==
    /\ IsTextCall
    /\ Len(call.arg.paragraphs) = 2
    /\ \E i \in DOMAIN result.text :
         /\ result.text[i] = NewLine
         /\ i < Len(result.text)
         /\ i > 1
         /\ result.styles[i].fontSize # result.fontSize

(***************************************************************************)
(* Claims about the shape processor and the reverse converter.             *)
(***************************************************************************)
IsShapeCall == call.op = "process_shape"

IsReverseCall == call.op = "fabric_to_pptx"

\* the objects whose 'fill' a per-kind handler wrote, as a color string
\* (_process_autoshape, _process_line, and _process_textbox with the text
\* color); the object of a picture has the 'fill' the enrichment gave it
FillIsColorString(obj) == obj.type \in {"rect", "triangle", "textbox", "path"}

HasAdvanced(shape) == shape.element.a_spPr # <<>>

\* the effects of the shape's effect list, in the order shadow, glow,
\* soft-edge
EffectsOf(shape) ==
    IF HasAdvanced(shape) /\ shape.element.a_spPr[1].effectLst # <<>>
    THEN extract_effects(shape.element.a_spPr[1].effectLst[1])
    ELSE <<>>

HasGradient(shape) ==
    HasAdvanced(shape) /\ shape.element.a_spPr[1].gradFill # <<>>

\* C1: when the effect list of a shape holds more than one of outer shadow,
\* glow and soft-edge, the 'shadow' descriptor of the object carries the
\* parameters of the effect of highest priority, shadow before glow before
\* soft-edge.
C1_EffectPriority ==
    (IsShapeCall /\ Len(EffectsOf(call.arg)) > 1 /\ result # None) =>
        /\ "shadow" \in DOMAIN result
        /\ result.shadow = effect_shadow(Head(EffectsOf(call.arg)))

C7_GradientDescriptor ==
    (IsShapeCall /\ HasGradient(call.arg) /\ result # None) =>
        /\ "fill" \in DOMAIN result
        /\ ~FillIsColorString(result)
        /\ result.fill = gradient_fill(extract_gradient(
                                           call.arg.element.a_spPr[1].gradFill[1]))

\* C8: for a linear gradient of angle a, convert_to_fabric returns a fill of
\* type 'linear' whose coords are (0.5 - 0.5 cos a, 0.5 - 0.5 sin a) and
\* (0.5 + 0.5 cos a, 0.5 + 0.5 sin a).
C8_LinearCoords ==
    (IsShapeCall /\ HasGradient(call.arg)
                 /\ locals.advanced_props.gradient.type = "linear") =>
        /\ "fill" \in DOMAIN locals.fabric_props
        /\ locals.fabric_props.fill.type = "linear"
        /\ locals.fabric_props.fill.coords =
               LinearCoords(locals.advanced_props.gradient.angle)

\* the only object of the slide that is reverse-converted
SentObject == call.arg[1].objects[1]

\* C9: reverse-converting a slide whose one object is a 'rect' with a hex
\* fill gives a slide with exactly one auto-shape, at the object's left, top,
\* width and height in native units, whose solid fill is the object's fill.
C9_RectReverse ==
    (IsReverseCall /\ SentObject.type = "rect"
                   /\ parse_color(SentObject.fill) # None) =>
        LET shapes == result.slides[1].shapes
        IN  /\ Len(shapes) = 1
            /\ shapes[1].shape_type = "AUTO_SHAPE"
            /\ shapes[1].left = Inches(FloatDiv(SentObject.left, 72))
            /\ shapes[1].top = Inches(FloatDiv(SentObject.top, 72))
            /\ shapes[1].width = Inches(FloatDiv(SentObject.width, 72))
            /\ shapes[1].height = Inches(FloatDiv(SentObject.height, 72))
            /\ shapes[1].fill = SolidFill(parse_color(SentObject.fill).rgb)

Near(x, y) == x - y \in {-1, 0, 1}

\* C10: a native length converted to scalar units by the forward rule
\* (x / 12700) and back by the reverse rule (Inches(scalar / 72), truncated
\* to an integer) differs from x by at most 1: so do the left, top, width
\* and height of every shape the reverse conversion creates.
C10_LengthRoundTrip ==
    IsReverseCall =>
        \A i \in DOMAIN result.slides[1].shapes :
            LET shape == result.slides[1].shapes[i]
            IN  /\ Near(shape.left, call.source.left)
                /\ Near(shape.top, call.source.top)
                /\ Near(shape.width, call.source.width)
                /\ Near(shape.height, call.source.height)

\* a textbox went there and back and its left edge came back one native
\* unit short while its top came back as it was
C10_Witness ==
    /\ IsReverseCall
    /\ Len(result.slides[1].shapes) = 1
    /\ result.slides[1].shapes[1].left = call.source.left - 1
    /\ result.slides[1].shapes[1].top = call.source.top
    /\ call.source.left > 0

(***************************************************************************)
(* Claims about the conversion of a document.                              *)
(***************************************************************************)
IsConvertCall == call.op = "pptx_to_fabric"

\* the upload was preprocessed and loaded, so that its shapes were walked
IsLoaded == IsConvertCall /\ call.arg.fails = "none" /\ call.arg.loadable

\* the shapes of a slide without those of which a step of the conversion
\* raises
NotRaising(shapes) == SelectSeq(shapes, LAMBDA shape : shape.raises = {})

\* C11: when a step of the conversion of one shape raises, only that shape
\* is dropped: pptx_to_fabric returns normally, and every slide holds, in
\* document order, what the other shapes of the slide convert to.
C11_OnlyRaisingShapeDropped ==
    IsLoaded =>
        /\ "slides" \in DOMAIN result
        /\ Len(result.slides) = Len(call.arg.prs.slides)
        /\ \A i \in DOMAIN call.arg.prs.slides :
              result.slides[i].objects \in
                  slide_objects(theme_colors,
                                NotRaising(call.arg.prs.slides[i].shapes))

\* C12: whenever a pptx_to_fabric call has ended, by a return or by an
\* exception, with the preprocessing or the load failed or not, the
\* temporary directory and the files in it no longer exist.
C12_TempFilesRemoved ==
    IsConvertCall =>
        /\ TempDir \notin files
        /\ OriginalPptx \notin files
        /\ FixedPptx \notin files

(***************************************************************************)
(* Claims about groups.                                                    *)
(***************************************************************************)
IsGroupCall == IsShapeCall /\ call.arg.shape_type = "GROUP"

\* C13: for every group shape, process_shape returns an object of type
\* 'group' whose 'objects' are the results of its children in order, the
\* children that gave no object left out; also for a group none of whose
\* children gives an object.
C13_GroupOfChildren ==
    IsGroupCall =>
        /\ result # None
        /\ result.type = "group"
        /\ result.objects \in process_children(theme_colors, call.arg.shapes)

\* C14: in what pptx_to_fabric returns, no object of any slide has the
\* type 'group', however deep the groups of the document are nested.
C14_NoGroupInFlatResult ==
    (IsConvertCall /\ "slides" \in DOMAIN result) =>
        \A i \in DOMAIN result.slides :
            \A j \in DOMAIN result.slides[i].objects :
                result.slides[i].objects[j].type # "group"

(***************************************************************************)
(* Claims about auto-shapes.                                               *)
(***************************************************************************)
\* an auto-shape was converted (nothing raised)
IsAutoShapeCall ==
    IsShapeCall /\ call.arg.shape_type = "AUTO_SHAPE" /\ call.arg.raises = {}

\* C15: an isosceles-triangle auto-shape with rotation r is emitted with
\* type 'triangle' and angle (r + 180) mod 360, a value of [0, 360); every
\* other auto-shape is emitted with type 'rect', its rotation as it is and
\* no angle.
C15_TriangleAngle ==
    IsAutoShapeCall =>
        IF call.arg.auto_shape_type = "ISOSCELES_TRIANGLE"
        THEN /\ result.type = "triangle"
             /\ result.angle = (call.arg.rotation + 180) % 360
             /\ result.angle >= 0 /\ result.angle < 360
        ELSE /\ result.type = "rect"
             /\ result.rotation = call.arg.rotation
             /\ "angle" \notin DOMAIN result

\* a triangle turned by 270 degrees, whose angle wraps around to 90
C15_Witness ==
    /\ IsAutoShapeCall
    /\ call.arg.auto_shape_type = "ISOSCELES_TRIANGLE"
    /\ call.arg.rotation = 270
    /\ result.angle = 90

(***************************************************************************)
(* Claims about the Theme Table and the resolution of colors.              *)
(***************************************************************************)
\* the color an element of the scheme declares: its direct RGB value
\* first, otherwise the last-rendered value of its system color
DeclaredColor(element) ==
    IF element.srgbClr # <<>> /\ "val" \in DOMAIN element.srgbClr[1].attrs
    THEN [color |-> "#" \o element.srgbClr[1].attrs.val]
    ELSE IF element.sysClr # <<>> /\ "lastClr" \in DOMAIN element.sysClr[1].attrs
    THEN [color |-> "#" \o element.sysClr[1].attrs.lastClr]
    ELSE None

IsTextColorCall == call.op = "get_text_color"

\* the role a theme color refers to, by the string str() gives for it
ReferencedRole == [s \in {"ACCENT_1 (5)", "ACCENT_1"} |-> "ACCENT_1"]

\* the resolution the claim describes: the direct RGB, otherwise the table
\* entry of the referenced role, otherwise the default
Resolved(color, default) ==
    IF color.kind = "rgb" THEN HexColor(color.rgb)
    ELSE IF /\ color.kind = "scheme"
            /\ ReferencedRole[color.theme_color] \in DOMAIN theme_colors
    THEN theme_colors[ReferencedRole[color.theme_color]]
    ELSE default

\* C17: for a text run and for a solid fill, the color is the direct RGB
\* when there is one, otherwise the Theme Table entry of the referenced
\* role when the role is in the table, otherwise the default: '#000000'
\* from get_text_color, 'transparent' from get_shape_color.
C17_ResolutionOrder ==
    /\ IsTextColorCall => result = Resolved(call.arg.font.color, "#000000")
    /\ (IsAutoShapeCall /\ call.arg.fill # None /\ call.arg.fill.type = "SOLID") =>
           result.fill = Resolved(call.arg.fill.fore_color, "transparent")

(***************************************************************************)
(* Claims about paths.                                                     *)
(***************************************************************************)
\* a freeform was converted (nothing raised) whose element has an a:path
\* with a point in every move and line
IsFreeformCall ==
    /\ IsShapeCall
    /\ call.arg.shape_type = "FREEFORM"
    /\ call.arg.raises = {}
    /\ call.arg.element.a_path # <<>>
    /\ \A k \in DOMAIN call.arg.element.a_path[1].commands :
          LET child == call.arg.element.a_path[1].commands[k]
          IN  child.tag \in {"moveTo", "lnTo"} => child.pts # <<>>

\* the coordinates written in a path, in order
RECURSIVE Coordinates(_)
Coordinates(path) ==
    IF path = <<>> THEN <<>>
    ELSE (CASE Head(path).cmd \in {"M", "L"} -> <<Head(path).x, Head(path).y>>
            [] Head(path).cmd = "C" ->
                 <<Head(path).pts[1].x, Head(path).pts[1].y,
                   Head(path).pts[2].x, Head(path).pts[2].y,
                   Head(path).pts[3].x, Head(path).pts[3].y>>
            [] OTHER -> <<>>)
         \o Coordinates(Tail(path))

\* the native coordinates of the moves, lines and 3-point curves of an
\* a:path, in order
RECURSIVE NativeCoordinates(_)
NativeCoordinates(commands) ==
    IF commands = <<>> THEN <<>>
    ELSE LET child == Head(commands)
         IN  (CASE child.tag \in {"moveTo", "lnTo"} ->
                     <<child.pts[1].attrs.x, child.pts[1].attrs.y>>
                [] child.tag = "cubicBezTo" /\ Len(child.pts) = 3 ->
                     <<child.pts[1].attrs.x, child.pts[1].attrs.y,
                       child.pts[2].attrs.x, child.pts[2].attrs.y,
                       child.pts[3].attrs.x, child.pts[3].attrs.y>>
                [] OTHER -> <<>>)
             \o NativeCoordinates(Tail(commands))

\* the a:path a shape's emitted 'path' is read from: the first a:path of a
\* freeform, the first a:path with a command of a custom geometry
SourcePath(shape) ==
    IF shape.shape_type = "FREEFORM" THEN shape.element.a_path[1]
    ELSE LET paths == shape.element.a_spPr[1].custGeom[1].pathLst[1].paths
         IN  paths[CHOOSE k \in DOMAIN paths :
                      /\ paths[k].commands # <<>>
                      /\ \A j \in 1..(k - 1) : paths[j].commands = <<>>]

\* C18: every coordinate of a path string or a clip rectangle emitted for
\* a custom geometry or a freeform outline is the native coordinate
\* divided by 12700.
C18_PathCoordinatesScalar ==
    (IsShapeCall /\ result # None
                 /\ call.arg.shape_type \in {"FREEFORM", "AUTO_SHAPE"}) =>
        /\ "path" \in DOMAIN result =>
              Coordinates(result.path) =
                  [k \in DOMAIN NativeCoordinates(SourcePath(call.arg).commands) |->
                     IntDiv(NativeCoordinates(SourcePath(call.arg).commands)[k], 12700)]
        /\ "clipPath" \in DOMAIN result =>
              LET rect == call.arg.element.a_spPr[1].custGeom[1].rect[1]
              IN  /\ result.clipPath.left = IntDiv(Attr(rect, "l", 0), 12700)
                  /\ result.clipPath.top = IntDiv(Attr(rect, "t", 0), 12700)

\* an outline of straight lines: a move, then lines, closed or not
IsPolyline(commands) ==
    /\ commands # <<>>
    /\ commands[1].tag = "moveTo"
    /\ \A k \in 2..Len(commands) :
          \/ commands[k].tag = "lnTo"
          \/ k = Len(commands) /\ commands[k].tag = "close"

\* the vertices of such an outline
Vertices(commands) ==
    SelectSeq(commands, LAMBDA child : child.tag \in {"moveTo", "lnTo"})

\* C19: for a freeform with the vertices v1..vn, the emitted path is a move
\* to v1, a line to each further vertex in order, and then a close as its
\* last command.
C19_FreeformClosedPolyline ==
    (IsFreeformCall /\ IsPolyline(call.arg.element.a_path[1].commands)) =>
        LET v == Vertices(call.arg.element.a_path[1].commands)
        IN  /\ result # None
            /\ Len(result.path) = Len(v) + 1
            /\ \A k \in DOMAIN v :
                  /\ result.path[k].cmd = IF k = 1 THEN "M" ELSE "L"
                  /\ result.path[k].x = IntDiv(v[k].pts[1].attrs.x, 12700)
                  /\ result.path[k].y = IntDiv(v[k].pts[1].attrs.y, 12700)
            /\ result.path[Len(v) + 1].cmd = "Z"

HasMalformedCubic(commands) ==
    \E k \in DOMAIN commands :
        commands[k].tag = "cubicBezTo" /\ Len(commands[k].pts) # 3

\* the moves, lines, 3-point curves and closes of an a:path, in order
WellFormed(commands) ==
    SelectSeq(commands,
              LAMBDA child : \/ child.tag \in {"moveTo", "lnTo", "close"}
                             \/ child.tag = "cubicBezTo" /\ Len(child.pts) = 3)

Letter == [moveTo |-> "M", lnTo |-> "L", cubicBezTo |-> "C", close |-> "Z"]

\* C20: a cubic curve without exactly 3 points is skipped and nothing else
\* is lost: every move, line, 3-point curve and close is emitted, one for
\* one and in order, and the shape is still emitted.
C20_MalformedCubicSkipped ==
    (IsFreeformCall /\ HasMalformedCubic(call.arg.element.a_path[1].commands)) =>
        LET kept == WellFormed(call.arg.element.a_path[1].commands)
        IN  /\ result # None
            /\ Len(result.path) = Len(kept)
            /\ \A k \in DOMAIN kept :
                  /\ result.path[k].cmd = Letter[kept[k].tag]
                  /\ Coordinates(<<result.path[k]>>) =
                         [i \in DOMAIN NativeCoordinates(<<kept[k]>>) |->
                            IntDiv(NativeCoordinates(<<kept[k]>>)[i], 12700)]
(***************************************************************************)
(* Claims about the reverse conversion of posted slides.                   *)
(***************************************************************************)
\* a body with a Slide array was posted
IsPostedCall ==
    call.op = "convert_fabric_to_pptx" /\ "fabric" \in DOMAIN call.arg

\* C21: for every input Slide array, fabric_to_pptx adds exactly one
\* document slide per input Slide, in input order: the presentation it
\* returns has as many slides as the array, the i-th made of the i-th Slide.
C21_OneSlidePerInput ==
    IsPostedCall =>
        /\ result.status = 200
        /\ locals.added = Len(call.arg.fabric)
        /\ Len(result.prs.slides) = Len(call.arg.fabric)
        /\ \A i \in DOMAIN call.arg.fabric :
               result.prs.slides[i].shapes =
                   create_shapes(call.arg.fabric[i].objects)

\* the objects of a list whose kind is one of textbox, rect, path, image
OfKnownKind(objects) ==
    SelectSeq(objects, LAMBDA obj : "type" \in DOMAIN obj /\ obj.type \in KnownKinds)

\* C24: in the reverse conversion an object whose kind is none of textbox,
\* rect, path, image, or that has no kind, adds no shape and raises nothing
\* to the caller; the other objects of the slide and the other slides are
\* processed as they are without it.
C24_UnknownKindSkipped ==
    (IsPostedCall /\ call.arg.fabric # <<>>) =>
        /\ result.status = 200
        /\ Len(result.prs.slides) = Len(call.arg.fabric)
        /\ \A i \in DOMAIN call.arg.fabric :
               /\ result.prs.slides[i].shapes =
                      create_shapes(OfKnownKind(call.arg.fabric[i].objects))
               /\ Len(result.prs.slides[i].shapes) <=
                      Len(OfKnownKind(call.arg.fabric[i].objects))

\* a 'circle' before a textbox on the first slide and an object without a
\* kind between a textbox and an image on the second: the textbox of the
\* first slide and both shapes of the second were made
C24_Witness ==
    /\ IsPostedCall
    /\ Len(call.arg.fabric) = 2
    /\ call.arg.fabric[1].objects = <<PostedCircle, PostedTextbox>>
    /\ call.arg.fabric[2].objects = <<PostedTextbox, PostedNoKind, PostedImage>>
    /\ result.status = 200
    /\ Len(result.prs.slides[1].shapes) = 1
    /\ result.prs.slides[1].shapes[1].shape_type = "TEXT_BOX"
    /\ Len(result.prs.slides[2].shapes) = 2
    /\ result.prs.slides[2].shapes[2].shape_type = "PICTURE"

(***************************************************************************)
(* Claims about the advanced enrichment.                                   *)
(***************************************************************************)
\* the shape has a gradient fill that is read as linear, the one facet
\* whose conversion raises inside convert_to_fabric
HasLinearGradient(shape) ==
    /\ HasGradient(shape)
    /\ extract_gradient(shape.element.a_spPr[1].gradFill[1]).type = "linear"

\* the markup of the shape's effect list
EffectMarkup(shape) == shape.element.a_spPr[1].effectLst[1]

C23_EmptyTextDefaults ==
    (IsTextCall /\ TextRuns(call.arg) = <<>>) =>
        /\ result.fontFamily = "Arial"
        /\ result.fontSize = 12
        /\ result.fill = "#000000"
        /\ result.textAlign = "left"
        /\ result.text = <<>>
        /\ result.styles = <<>>

(***************************************************************************)
(* Claims about the Theme Table during a conversion.                       *)
(***************************************************************************)
\* the ColorHandler of the conversion has been constructed
IsConstructed == call.op # "idle"

\* C25: the Theme Table is read-only after construction: no call of
\* get_shape_color, get_text_color, process_shape or convert_to_fabric_text
\* made during a conversion, in any order, adds, removes or changes an entry.
C25_ThemeTableReadOnly ==
    [][IsConstructed => theme_colors' = theme_colors]_vars

\* the table built from the Office theme, still as it was built at the
\* third call, a get_shape_color that resolved a theme color through it
C25_Witness ==
    /\ call.op = "get_shape_color"
    /\ call.calls = MaxCalls
    /\ call.arg.fill = SchemeFill("ACCENT_1")
    /\ theme_colors.ACCENT_1 = "#5B9BD5"
    /\ theme_colors.TEXT_2 = "#44546A"
    /\ DOMAIN theme_colors = DOMAIN ThemeDefaults
    /\ result = "#5B9BD5"

(***************************************************************************)
(* Claims about the stops of a gradient.                                   *)
(***************************************************************************)
\* the a:gs elements of the shape's gradient fill, in document order
SourceStops(shape) == shape.element.a_spPr[1].gradFill[1].gs

\* C26: the Gradient Descriptor made for a gradient fill has one color stop
\* for each stop of the source, in source order, each with the offset
\* pos / 100000, a value of [0, 1], and the color of that stop: no stop of
\* the source is lost or merged with another (stated for the gradients
\* whose descriptor is written, those not read as linear).
C26_OneStopPerSourceStop ==
    (IsShapeCall /\ HasGradient(call.arg) /\ ~HasLinearGradient(call.arg)) =>
        LET gs    == SourceStops(call.arg)
            stops == locals.advanced_props.gradient.stops
            fill  == locals.fabric_props.fill
        IN  /\ Len(stops) = Len(gs)
            /\ \A i \in DOMAIN gs :
                   /\ stops[i].offset = IntDiv(Attr(gs[i], "pos", 0), 100000)
                   /\ gs[i].srgbClr # <<>>
                   /\ stops[i].color = "#" \o gs[i].srgbClr[1]
            /\ Cardinality(DOMAIN fill.colorStops) = Len(gs)
            /\ \A i \in DOMAIN stops :
                   /\ stops[i].offset \in DOMAIN fill.colorStops
                   /\ fill.colorStops[stops[i].offset] = stops[i].color

(***************************************************************************)
(* Claims about a preprocessing that fails.                                *)
(***************************************************************************)
\* the preprocessing failed at a step after the upload was saved
FailedAfterSave == IsConvertCall /\ call.arg.fails \in {"extract", "write"}

\* C27: when the preprocessing fails at a step after the upload was saved,
\* _preprocess_pptx_file returns the path of the saved original, that file
\* exists when pptx_to_fabric loads it, and the conversion proceeds on the
\* original document: a document that can be loaded gives its slides.
C27_FallsBackToOriginal ==
    FailedAfterSave =>
        LET pre == preprocess_pptx_file({}, call.arg)
        IN  /\ locals.processed_pptx = [path |-> OriginalPptx]
            /\ pre.path = OriginalPptx
            /\ pre.path \in pre.files
            /\ call.arg.loadable => "slides" \in DOMAIN result

(***************************************************************************)
(* Claims about the rotation on the way there and back.                    *)
(***************************************************************************)
\* the object of a textbox or a picture was converted back
IsRoundTrip ==
    /\ call.op = "fabric_to_pptx"
    /\ call.source.shape_type \in {"TEXT_BOX", "PICTURE"}

\* C28: the forward conversion emits the rotation of a textbox or a picture
\* under the key 'rotation' and emits no 'angle'; the reverse conversion
\* reads only 'angle'; so the shape a rotated textbox or picture comes back
\* as has rotation 0, whatever the rotation of the source.
C28_RotationLostOnRoundTrip ==
    /\ (IsShapeCall /\ call.arg.shape_type \in {"TEXT_BOX", "PICTURE"}
            /\ result # None) =>
           /\ result.rotation = call.arg.rotation
           /\ "angle" \notin DOMAIN result
    /\ IsRoundTrip =>
           /\ "slides" \in DOMAIN result
           /\ \A i \in DOMAIN result.slides :
                 \A j \in DOMAIN result.slides[i].shapes :
                    result.slides[i].shapes[j].rotation = 0

\* a picture turned by a quarter came back as a picture that is not turned
C28_Witness ==
    /\ IsRoundTrip
    /\ call.source.shape_type = "PICTURE"
    /\ call.source.rotation = 90
    /\ call.arg[1].objects[1].rotation = 90
    /\ Len(result.slides[1].shapes) = 1
    /\ result.slides[1].shapes[1].shape_type = "PICTURE"
    /\ result.slides[1].shapes[1].rotation = 0

(***************************************************************************)
(* Claims about the stroke of auto-shapes and lines.                       *)
(***************************************************************************)
\* an object was emitted for an auto-shape or a line shape
IsStrokedCall ==
    /\ IsShapeCall
    /\ call.arg.shape_type \in {"AUTO_SHAPE", "LINE"}
    /\ result # None

WithoutAdvanced(shape) == [shape EXCEPT !.element.a_spPr = <<>>]

\* C30: when the conversion of one facet raises inside convert_to_fabric
\* (the gradient of a linear gradient fill), convert_to_fabric returns the
\* empty map: the object gets none of the enrichment, no shadow and no
\* clipPath either although the shape has effects, and process_shape still
\* emits the basic object of the shape's kind.
C30_EnrichmentAllOrNothing ==
    (IsShapeCall /\ HasLinearGradient(call.arg)) =>
        /\ locals.fabric_props = EmptyDict
        /\ result \in process_shape(theme_colors, WithoutAdvanced(call.arg))
        /\ call.arg.shape_type \in {"AUTO_SHAPE", "LINE", "PICTURE"} =>
               result # None
        /\ result # None =>
               /\ "shadow" \notin DOMAIN result
               /\ "clipPath" \notin DOMAIN result
               /\ call.arg.shape_type \notin {"LINE", "FREEFORM"} =>
                      "path" \notin DOMAIN result

\* a rectangle with a linear gradient and an outer shadow was emitted as a
\* plain 'rect', without the shadow
C30_Witness ==
    /\ IsShapeCall
    /\ HasLinearGradient(call.arg)
    /\ call.arg.shape_type = "AUTO_SHAPE"
    /\ call.arg.element.a_spPr[1].effectLst # <<>>
    /\ EffectMarkup(call.arg).outerShdw # <<>>
    /\ Len(locals.advanced_props.effects) > 0
    /\ locals.fabric_props = EmptyDict
    /\ result # None
    /\ result.type = "rect"
    /\ "shadow" \notin DOMAIN result
====
